---- MODULE Spec2Model ----
(***************************************************************************)
(* A model of the DLite core runtime: the UUID identity scheme, the        *)
(* metadata url helpers, the entity layout computed by                     *)
(* dlite_meta_postinit, the reference counting of entities and instances   *)
(* and the entity load dispatch.                                           *)
(*                                                                         *)
(* C strings are sequences of one-character strings; a NULL pointer is the *)
(* value NULL.  Each component has its own variables and its own           *)
(* specification; the other components' variables stay idle under it.      *)
(***************************************************************************)
EXTENDS Integers, Sequences, FiniteSets, TLC

VARIABLES
  \* ---- identity (getuuid.c, dlite.c)
  call,      \* the last dlite_get_uuid call, if any: {[id, buff, version]}
             \* with what uuid4_generate would return and the generator state
  memo,      \* an earlier call kept by the observer, if any
  rng        \* state of the random generator behind uuid4_generate

uuidVars == <<call, memo, rng>>

VARIABLES
  \* ---- metadata urls (dlite.c)
  urlcall,   \* the call the program is about to make, with its arguments
  joined,    \* the dlite_join_metadata call made, if any: {[name, version,
             \* namespace, metadata]}
  split      \* the dlite_split_metadata call made, if any

urlVars == <<urlcall, joined, split>>

VARIABLES
  \* ---- entity layout (dlite_meta_postinit)
  meta_in,   \* the metadata dlite_meta_postinit is about to lay out, if any
  meta       \* the metadata after dlite_meta_postinit, if any

layoutVars == <<meta_in, meta>>

VARIABLES
  \* ---- reference counting (dlite-entity.c)
  schema_entity,  \* the static meta-entity: [refcount, state]
  entities,       \* the DLiteEntity blocks: [state, refcount, arrays, unit]
  instances,      \* the DLiteInstance blocks: [state, meta]
  held,           \* per entity, the references its callers hold
  crashed         \* the process dereferenced NULL and died

refVars == <<schema_entity, entities, instances, held, crashed>>

VARIABLES
  \* ---- entity load and save (dlite-entity.c)
  load_in,   \* the dlite_entity_load call about to be made, if any
  loaded,    \* the dlite_entity_load call made, if any, with its result
  save_in,   \* the dlite_entity_save call about to be made, if any
  saved      \* the dlite_entity_save call made, if any, with its result

loadVars == <<load_in, loaded, save_in, saved>>

VARIABLES
  \* ---- datamodel facade (dlite-datamodel.c)
  dm_in,     \* the dlite_datamodel_* call about to be made, if any
  dm_out     \* the dlite_datamodel_* call made, if any, with its result

dmVars == <<dm_in, dm_out>>

VARIABLES
  \* ---- instances (dlite-entity.c)
  entity,    \* the entity the instances are created from, if any
  inst,      \* the instance block and its heap arrays, if any
  storage,   \* what the storage driver holds, per uuid
  obs        \* what the last call returned to its caller, if any

instVars == <<entity, inst, storage, obs>>

VARIABLES
  \* ---- collections (dlite-collection.c)
  triplets,  \* coll->triplets: the rows [s, p, o, id] of the triple store
  coll_ret   \* the last dlite_collection_* call and what it returned, if any:
             \* {[op, label, inst, ret, fresh, relations]}

collVars == <<triplets, coll_ret>>

VARIABLES
  \* ---- storage plugin registry (dlite-storage-plugins.c)
  registry,  \* names of the registered plugin apis
  paths,     \* the plugin search path
  plug_out   \* the last dlite_storage_plugin_get call with its result, if any

plugVars == <<registry, paths, plug_out>>

VARIABLES
  \* ---- nested and flat array copies (dlite-datamodel.c)
  copy_in,   \* the copy about to be made, if any
  copy_out   \* the copy made, if any, with its result

copyVars == <<copy_in, copy_out>>

VARIABLES
  \* ---- entity schemas read by the json plugin (json-utils.c)
  json_in,   \* the entity object about to be validated, if any
  json_out   \* what the validation returned, if any

jsonVars == <<json_in, json_out>>

coreVars == <<uuidVars, urlVars, layoutVars, refVars, loadVars>>
restVars == <<dmVars, instVars, collVars, plugVars, copyVars, jsonVars>>

vars == <<coreVars, restVars>>

\* A const char *: the NULL pointer, or a pointer to the string s
NULL == [null |-> TRUE, s |-> <<>>]
Str(s) == [null |-> FALSE, s |-> s]

NUL == "NUL"          \* the terminating '\0' of a C string

(***************************************************************************)
(* Characters                                                              *)
(***************************************************************************)
LowerHex == {"0", "4", "5", "9", "a", "f"}
UpperHex == {"A", "F"}
Upper == UpperHex \cup {"G"}

\* isxdigit() of <ctype.h>
isxdigit(c) == c \in LowerHex \cup UpperHex

\* tolower() of <ctype.h>, getuuid.c:57
tolower(c) ==
  CASE c = "A" -> "a"
    [] c = "F" -> "f"
    [] c = "G" -> "g"
    [] OTHER -> c

strlen(s) == Len(s)

(***************************************************************************)
(* Bounds of the identity model                                            *)
(***************************************************************************)
MaxNameLen == 2     \* longest readable name tried as id
RngPeriod == 2      \* number of distinct generator states

UUID_LEN == 36

NameChars == {"a", "G"}

Names == UNION {[1..n -> NameChars] : n \in 1..MaxNameLen}

\* A string shaped like a uuid: "0" everywhere, hyphens at C indices 13, 18
\* and 23, with the first character, the character at C index 8 and the
\* length left open.
UuidLike(c0, c8, n) ==
  [i \in 1..n |-> IF i = 1 THEN c0
                  ELSE IF i = 9 THEN c8
                  ELSE IF i \in {14, 19, 24} THEN "-"
                  ELSE "0"]

UuidLikes ==
  {UuidLike(c0, c8, UUID_LEN) : c0 \in {"a", "F", "g", "-"}, c8 \in {"-", "0"}}
  \cup {UuidLike("F", "-", n) : n \in {UUID_LEN - 1, UUID_LEN + 1}}

\* the ids handed to dlite_get_uuid
Ids == {NULL} \cup {Str(s) : s \in {<<>>} \cup Names \cup UuidLikes}

\* what the caller's buffer may hold before the call
OldBuffs == {[i \in 1..(UUID_LEN + 1) |-> c] : c \in {"G", "x"}}

(***************************************************************************)
(* utils/uuid.c, utils/uuid4.c                                             *)
(***************************************************************************)
\* uuid_from_string(NULL, s, len): zero when s is a uuid string
uuid_from_string(s, len) ==
  IF /\ len = UUID_LEN
     /\ \A i \in 1..UUID_LEN :
          IF i \in {9, 14, 19, 24} THEN s[i] = "-" ELSE isxdigit(s[i])
  THEN 0 ELSE 1

Hexdigit(n) == CASE n = 0 -> "0" [] n = 1 -> "9" [] n = 2 -> "a" [] OTHER -> "f"

CharCode(c) == CASE c = "a" -> 1 [] c = "G" -> 2 [] c = "g" -> 3 [] c = "F" -> 4
                 [] c = "-" -> 5 [] c = "0" -> 6 [] OTHER -> 7

RECURSIVE Digest(_, _)
\* stands for the SHA-1 digest of the namespace followed by the name
Digest(h, s) ==
  IF s = <<>> THEN h ELSE Digest((h * 5 + CharCode(Head(s))) % 64, Tail(s))

\* the string form of a uuid with the version nibble v and 3 digits of payload
uuid_as_string(v, h) ==
  [i \in 1..UUID_LEN |->
     IF i \in {9, 14, 19, 24} THEN "-"
     ELSE IF i = 15 THEN v
     ELSE IF i = 1 THEN Hexdigit(h % 4)
     ELSE IF i = 2 THEN Hexdigit((h \div 4) % 4)
     ELSE IF i = 3 THEN Hexdigit((h \div 16) % 4)
     ELSE "0"]

\* uuid_create_sha1_from_name(&uuid, NameSpace_DNS, id, len)
uuid_create_sha1_from_name(name, len) == Digest(11, SubSeq(name, 1, len))

\* uuid4_generate(buff): the string written for generator state r; the
\* generator may print hex digits in either case
uuid4_generate(r, up) ==
  [i \in 1..UUID_LEN |->
     IF i = 1 THEN (IF up THEN "F" ELSE Hexdigit(r % 4))
     ELSE uuid_as_string("4", 7 * r + 1)[i]]

(***************************************************************************)
(* getuuid.c                                                               *)
(***************************************************************************)
\* lines 56-57: the first UUID_LEN characters converted to lower case
Lowered(b) ==
  [i \in 1..(UUID_LEN + 1) |-> IF i <= UUID_LEN THEN tolower(b[i]) ELSE b[i]]

Terminated(s) == [i \in 1..(UUID_LEN + 1) |-> IF i <= UUID_LEN THEN s[i] ELSE NUL]

getuuidn_v5seeded(old, s, len, r, status, up) ==
  LET p == IF len = 0 THEN NULL ELSE s IN
  IF p.null \/ p.s = <<>>
  THEN [version |-> IF status = 0 THEN 4 ELSE -1,
        buff |-> Lowered(IF status = 0 THEN Terminated(uuid4_generate(r, up))
                         ELSE old)]
  ELSE IF uuid_from_string(p.s, len) # 0
  THEN [version |-> 5,
        buff |-> Lowered(Terminated(
                   uuid_as_string("5", (uuid_create_sha1_from_name(p.s, len) + r) % 64)))]
  ELSE [version |-> 0,
        buff |-> Lowered(Terminated(SubSeq(p.s, 1, UUID_LEN)))]

getuuidn_nolower(old, s, len, r, status, up) ==
  LET p == IF len = 0 THEN NULL ELSE s IN
  IF p.null \/ p.s = <<>>
  THEN [version |-> IF status = 0 THEN 4 ELSE -1,
        buff |-> IF status = 0 THEN Terminated(uuid4_generate(r, up)) ELSE old]
  ELSE IF uuid_from_string(p.s, len) # 0
  THEN [version |-> 5,
        buff |-> Terminated(uuid_as_string("5", uuid_create_sha1_from_name(p.s, len)))]
  ELSE [version |-> 0,
        buff |-> Terminated(SubSeq(p.s, 1, UUID_LEN))]

getuuidn_v5forall(old, s, len, r, status, up) ==
  LET p == IF len = 0 THEN NULL ELSE s IN
  IF p.null \/ p.s = <<>>
  THEN [version |-> IF status = 0 THEN 4 ELSE -1,
        buff |-> Lowered(IF status = 0 THEN Terminated(uuid4_generate(r, up))
                         ELSE old)]
  ELSE [version |-> 5,
        buff |-> Lowered(Terminated(
                   uuid_as_string("5", uuid_create_sha1_from_name(p.s, len))))]

\* getuuidn(buff, id, len): old is what buff held, r the generator state,
\* status what uuid4_generate returns, up the case of its hex digits
getuuidn(old, s, len, r, status, up) ==
  LET p == IF len = 0 THEN NULL ELSE s IN
  IF p.null \/ p.s = <<>>
  THEN [version |-> IF status = 0 THEN 4 ELSE -1,
        buff |-> Lowered(IF status = 0 THEN Terminated(uuid4_generate(r, up))
                         ELSE old)]
  ELSE IF uuid_from_string(p.s, len) # 0
  THEN [version |-> 5,
        buff |-> Lowered(Terminated(
                   uuid_as_string("5", uuid_create_sha1_from_name(p.s, len))))]
  ELSE [version |-> 0,
        buff |-> Lowered(Terminated(SubSeq(p.s, 1, UUID_LEN)))]

\* getuuid(buff, id)
getuuid(old, s, r, status, up) ==
  getuuidn(old, s, IF ~s.null THEN strlen(s.s) ELSE 0, r, status, up)

(***************************************************************************)
(* dlite.c: identity                                                       *)
(***************************************************************************)
\* uuid4_generate is reached only for a NULL or empty id
UsesRng(s) == s.null \/ s.s = <<>>

\* dlite_get_uuid(buff, id) called with buffer contents old; keep tells
\* whether the observer keeps the previous call for later comparison
dlite_get_uuid(s, old, status, up, keep) ==
  LET r == getuuid(old, s, rng, status, up) IN
  /\ call' = {[id |-> s, buff |-> r.buff, version |-> r.version,
               status |-> status, rng |-> rng]}
  /\ rng' = IF UsesRng(s) /\ status = 0 THEN (rng + 1) % RngPeriod ELSE rng
  /\ memo' = IF keep THEN call ELSE memo
  /\ UNCHANGED <<urlVars, layoutVars, refVars, loadVars, restVars>>

IdleUuid == call = {} /\ memo = {} /\ rng = 0
IdleUrl == urlcall = {} /\ joined = {} /\ split = {}
IdleLayout == meta_in = {} /\ meta = {}
IdleRef ==
  /\ schema_entity = [refcount |-> 1, state |-> "live"]
  /\ entities = <<>>
  /\ instances = <<>>
  /\ held = <<>>
  /\ crashed = FALSE
IdleLoad == load_in = {} /\ loaded = {} /\ save_in = {} /\ saved = {}
IdleDm == dm_in = {} /\ dm_out = {}
IdleInst == entity = {} /\ inst = {} /\ storage = {} /\ obs = {}
IdleColl == triplets = <<>> /\ coll_ret = {}
IdlePlug == registry = {} /\ paths = {} /\ plug_out = {}
IdleCopy == copy_in = {} /\ copy_out = {}
IdleJson == json_in = {} /\ json_out = {}
IdleRest ==
  IdleDm /\ IdleInst /\ IdleColl /\ IdlePlug /\ IdleCopy /\ IdleJson

InitUuid ==
  /\ call = {}
  /\ memo = {}
  /\ rng \in 0..(RngPeriod - 1)
  /\ IdleUrl /\ IdleLayout /\ IdleRef /\ IdleLoad /\ IdleRest

\* The environments of a call that its result can depend on: the buffer is
\* left as it was only when uuid4_generate fails, and the generator is
\* reached only for a NULL or empty id.
Envs(s) ==
  IF UsesRng(s)
  THEN {[old |-> o, status |-> 1, up |-> FALSE] : o \in OldBuffs}
       \cup {[old |-> CHOOSE o \in OldBuffs : TRUE, status |-> 0, up |-> u] :
               u \in BOOLEAN}
  ELSE {[old |-> o, status |-> 0, up |-> FALSE] : o \in OldBuffs}

NextUuid ==
  \E s \in Ids, keep \in BOOLEAN : \E env \in Envs(s) :
    dlite_get_uuid(s, env.old, env.status, env.up, keep)

SpecUuid == InitUuid /\ [][NextUuid]_vars

(***************************************************************************)
(* Identity: properties                                                    *)
(***************************************************************************)
HyphenAt == {8, 13, 18, 23}      \* C indices of the hyphens of a uuid
HexChars == {"0", "4", "5", "9", "a", "f", "A", "F"}

\* the string s (C index k is s[k + 1]) is a valid uuid string
ValidUuid(s) ==
  /\ Len(s) = 36
  /\ \A k \in 0..35 : IF k \in HyphenAt THEN s[k + 1] = "-"
                       ELSE s[k + 1] \in HexChars

IdClass(p) ==
  IF p.null \/ p.s = <<>> THEN "empty"
  ELSE IF ValidUuid(p.s) THEN "uuid" ELSE "name"

lower(s) ==
  [i \in DOMAIN s |-> IF s[i] = "A" THEN "a" ELSE IF s[i] = "F" THEN "f"
                      ELSE IF s[i] = "G" THEN "g" ELSE s[i]]

\* C1: the version tag dlite_get_uuid returns is decided by the class of id:
\* 4 for a NULL or empty id, 0 for a valid uuid string, 5 for any other id,
\* and -1 only when the generation of a random uuid fails.
C1_VersionByClass ==
  \A c \in call :
    /\ IdClass(c.id) = "empty" => c.version = (IF c.status = 0 THEN 4 ELSE -1)
    /\ IdClass(c.id) = "uuid" => c.version = 0
    /\ IdClass(c.id) = "name" => c.version = 5
    /\ c.version = -1 => IdClass(c.id) = "empty" /\ c.status # 0

C1_Witness ==
  /\ \E c \in call : IdClass(c.id) = "uuid" /\ c.version = 0
  /\ \E m \in memo : IdClass(m.id) = "name" /\ m.version = 5

\* C2: for a valid uuid string U of any case the call returns 0 and leaves
\* lower(U) followed by NUL in the buffer; no buffer returned with a
\* non-negative version holds an upper-case character in its first 36 places.
C2_LowerCased ==
  \A c \in call :
    /\ IdClass(c.id) = "uuid" =>
         /\ c.version = 0
         /\ SubSeq(c.buff, 1, 36) = lower(c.id.s)
         /\ c.buff[37] = NUL
    /\ c.version >= 0 => \A i \in 1..36 : c.buff[i] \notin Upper

C2_Witness ==
  \E c \in call :
    /\ IdClass(c.id) = "uuid"
    /\ \E i \in 1..36 : c.id.s[i] \in Upper
    /\ c.version = 0

\* C3: two calls with the same non-empty id that is no valid uuid, made in
\* any generator state and with other calls between them, both return 5 and
\* write the same 36 characters.
C3_Deterministic ==
  \A c \in call, m \in memo :
    (c.id = m.id /\ IdClass(c.id) = "name") =>
      /\ c.version = 5 /\ m.version = 5
      /\ SubSeq(c.buff, 1, 36) = SubSeq(m.buff, 1, 36)

C3_Witness ==
  \E c \in call, m \in memo :
    /\ c.id = m.id /\ IdClass(c.id) = "name"
    /\ c.rng # m.rng

(***************************************************************************)
(* dlite.c: metadata urls                                                  *)
(***************************************************************************)
MaxPartLen == 2     \* longest name, version or namespace joined
MaxUrlLen == 3      \* longest url split directly

UrlChars == {"a", "/"}

Strings(chars, n) == UNION {[1..k -> chars] : k \in 0..n}

\* snprintf(buf, size, "%s/%s/%s", a, b, c): at most size - 1 characters
snprintf3(size, a, b, c) ==
  LET full == a \o <<"/">> \o b \o <<"/">> \o c IN
  IF size <= 0 THEN <<>>
  ELSE IF Len(full) <= size - 1 THEN full ELSE SubSeq(full, 1, size - 1)

dlite_join_metadata_short(name, version, namespace, ok) ==
  LET size == strlen(name) + strlen(version) + strlen(namespace) + 2 IN
  IF ~ok THEN NULL
  ELSE Str(snprintf3(size, namespace, version, name))

\* dlite_join_metadata(name, version, namespace); ok: malloc() succeeds
dlite_join_metadata(name, version, namespace, ok) ==
  LET size == strlen(name) + strlen(version) + strlen(namespace) + 3 IN
  IF ~ok THEN NULL
  ELSE Str(snprintf3(size, namespace, version, name))

\* strrchr(s, c) as a C index, -1 for NULL
strrchr(s, c) ==
  IF \E i \in 1..Len(s) : s[i] = c
  THEN (CHOOSE i \in 1..Len(s) : s[i] = c /\ \A j \in (i + 1)..Len(s) : s[j] # c) - 1
  ELSE -1

RECURSIVE ScanBack(_, _)
\* dlite.c:96  while (*q != '/' && q > metadata) q--;
\* q is a C index into s; at q = -1 the byte read lies before the string and
\* the loop ends whatever it holds, since q > metadata is false
ScanBack(s, q) ==
  IF q < 0 THEN q
  ELSE IF s[q + 1] # "/" /\ q > 0 THEN ScanBack(s, q - 1)
  ELSE q

\* the result of a dlite_split_metadata call: ret is the value returned,
\* name, version and namespace hold what was stored through the pointers
\* (nothing when empty), oob tells that a byte outside the string was read,
\* crashed that the call did not return
SplitResult(ret, n, v, ns, oob, crash) ==
  [ret |-> ret, name |-> n, version |-> v, namespace |-> ns,
   oob |-> oob, crashed |-> crash]

\* dlite_split_metadata(metadata, name, version, namespace).
\* want tells which of the three pointers are not NULL; fail_at is the
\* allocation that fails (1 strdup of the name, 2 version, 3 namespace,
\* 0 none); malloc0 tells whether malloc(0) returns NULL
dlite_split_metadata(metadata, want, fail_at, malloc0) ==
  LET p == strrchr(metadata, "/")
      q == ScanBack(metadata, p - 1)
      oob == p = 0
      fail == SplitResult(1, {}, {}, {}, oob, FALSE)
      namep == SubSeq(metadata, p + 2, Len(metadata))
      versionp == SubSeq(metadata, q + 2, p)
      nssize == q + 1
      namespacep == SubSeq(metadata, 1, nssize - 1)
  IN
  IF p = -1 THEN SplitResult(1, {}, {}, {}, FALSE, FALSE)
  ELSE IF q = 0 THEN fail
  ELSE IF want.name /\ fail_at = 1 THEN fail
  ELSE IF want.version /\ fail_at = 2 THEN fail
  ELSE IF want.namespace /\ nssize = 0 /\ malloc0 THEN fail
  ELSE IF want.namespace /\ nssize = 0
  THEN SplitResult(1, {}, {}, {}, oob, TRUE)    \* memcpy of (size_t)-1 bytes
  ELSE IF want.namespace /\ fail_at = 3 THEN fail
  ELSE SplitResult(0,
                   IF want.name THEN {namep} ELSE {},
                   IF want.version THEN {versionp} ELSE {},
                   IF want.namespace THEN {namespacep} ELSE {},
                   oob, FALSE)

Wants == [name : BOOLEAN, version : BOOLEAN, namespace : BOOLEAN]

\* a caller splits a url it holds
Split ==
  \E u \in urlcall :
    /\ u.op = "split"
    /\ split' = {[metadata |-> u.uri, want |-> u.want, fail_at |-> u.fail_at,
                  res |-> dlite_split_metadata(u.uri, u.want, u.fail_at,
                                               u.malloc0)]}
    /\ joined' = {}
    /\ urlcall' = {}
    /\ UNCHANGED <<uuidVars, layoutVars, refVars, loadVars, restVars>>

\* a caller joins three parts and splits the url again
JoinSplit ==
  \E u \in urlcall :
    /\ u.op = "join"
    /\ LET m == dlite_join_metadata(u.name, u.version, u.namespace, u.ok) IN
       /\ joined' = {[name |-> u.name, version |-> u.version,
                      namespace |-> u.namespace, metadata |-> m]}
       /\ split' = IF m.null THEN {}
                   ELSE {[metadata |-> m.s, want |-> u.want,
                          fail_at |-> u.fail_at,
                          res |-> dlite_split_metadata(m.s, u.want, u.fail_at,
                                                       u.malloc0)]}
    /\ urlcall' = {}
    /\ UNCHANGED <<uuidVars, layoutVars, refVars, loadVars, restVars>>

SplitCalls ==
  [op : {"split"}, uri : Strings(UrlChars, MaxUrlLen), want : Wants,
   fail_at : 0..3, malloc0 : BOOLEAN]

JoinCalls ==
  [op : {"join"}, name : Strings(UrlChars, MaxPartLen),
   version : Strings(UrlChars, MaxPartLen),
   namespace : Strings(UrlChars, MaxPartLen), ok : BOOLEAN, want : Wants,
   fail_at : 0..3, malloc0 : BOOLEAN]

InitUrl ==
  /\ IdleUuid /\ IdleLayout /\ IdleRef /\ IdleLoad /\ IdleRest
  /\ \E u \in SplitCalls \cup JoinCalls : urlcall = {u}
  /\ joined = {}
  /\ split = {}

NextUrl == Split \/ JoinSplit

SpecUrl == InitUrl /\ [][NextUrl]_vars

(***************************************************************************)
(* Metadata urls: properties                                               *)
(***************************************************************************)
NoSlash(s) == \A i \in 1..Len(s) : s[i] # "/"
Slashes(s) == Cardinality({i \in 1..Len(s) : s[i] = "/"})

\* the allocation that fails is one the call performs
AllocFails(c) ==
  \/ c.fail_at = 1 /\ c.want.name
  \/ c.fail_at = 2 /\ c.want.version
  \/ c.fail_at = 3 /\ c.want.namespace

\* C4: for non-empty n, v, ns without '/', splitting join(n, v, ns) returns
\* 0 and yields name = n, version = v and namespace = ns (allocations
\* succeeding).
C4_RoundTrip ==
  \A j \in joined :
    (/\ j.name # <<>> /\ j.version # <<>> /\ j.namespace # <<>>
     /\ NoSlash(j.name) /\ NoSlash(j.version) /\ NoSlash(j.namespace)
     /\ ~j.metadata.null) =>
      \A c \in split :
        ~AllocFails(c) =>
          /\ c.res.ret = 0 /\ ~c.res.crashed /\ ~c.res.oob
          /\ c.want.name => c.res.name = {j.name}
          /\ c.want.version => c.res.version = {j.version}
          /\ c.want.namespace => c.res.namespace = {j.namespace}

C4_Witness ==
  \E j \in joined, c \in split :
    /\ Len(j.name) = 2 /\ Len(j.version) = 1 /\ Len(j.namespace) = 2
    /\ NoSlash(j.name) /\ NoSlash(j.version) /\ NoSlash(j.namespace)
    /\ c.want = [name |-> TRUE, version |-> TRUE, namespace |-> TRUE]
    /\ c.res.ret = 0
    /\ c.res.name = {j.name} /\ c.res.namespace = {j.namespace}

\* C5: for a uri with fewer than two '/' the split fails: it returns
\* non-zero, stores through none of the pointers and reads no byte outside
\* the string.
C5_FewSeparatorsFail ==
  \A c \in split :
    Slashes(c.metadata) < 2 =>
      /\ c.res.ret # 0 /\ ~c.res.crashed
      /\ c.res.name = {} /\ c.res.version = {} /\ c.res.namespace = {}
      /\ ~c.res.oob

(***************************************************************************)
(* dlite-type.c: the type system (LP64)                                    *)
(***************************************************************************)
SizeofPtr == 8        \* sizeof(void *), sizeof(char *), sizeof(DLiteMeta *)
SizeofSizeT == 8      \* sizeof(size_t)
SizeofInt == 4        \* sizeof(int)
OffsetofMeta == 48    \* offsetof(DLiteInstance, meta): uuid[37], uri, meta

\* dlite_type_get_alignment(type, size): the natural alignment of a stored
\* value; a blob and a fixed string are byte arrays
dlite_type_get_alignment(type, size) ==
  CASE type = "dliteBlob" -> 1
    [] type = "dliteBool" -> 1
    [] type \in {"dliteInt", "dliteUInt", "dliteFloat"} -> size
    [] type = "dliteString" -> 1
    [] type = "dliteStringPtr" -> SizeofPtr

\* dlite_type_get_member_offset(prev_off, prev_size, type, size)
dlite_type_get_member_offset(prev_off, prev_size, type, size) ==
  LET align == dlite_type_get_alignment(type, size)
      offset == prev_off + prev_size
      padding == (align - (offset % align)) % align
  IN offset + padding

(***************************************************************************)
(* dlite-entity.c: dlite_meta_postinit                                     *)
(***************************************************************************)
MaxDims == 2          \* most dimensions of an entity
MaxProps == 2         \* most properties of an entity

\* the (type, size) pairs properties are declared with
PropTypes ==
  {[type |-> "dliteBlob", size |-> 3], [type |-> "dliteBool", size |-> 1],
   [type |-> "dliteInt", size |-> 2], [type |-> "dliteUInt", size |-> 4],
   [type |-> "dliteFloat", size |-> 8], [type |-> "dliteString", size |-> 5],
   [type |-> "dliteStringPtr", size |-> SizeofPtr]}

\* a DLiteProperty as dlite_entity_create copies it: dims is allocated
\* exactly when ndims > 0
Properties ==
  {[type |-> pt.type, size |-> pt.size, ndims |-> n, dims |-> n > 0] :
     pt \in PropTypes, n \in 0..1}

\* the metadata handed to dlite_meta_postinit by dlite_entity_create
Metas ==
  [ndimensions : 0..MaxDims,
   properties : UNION {[1..k -> Properties] : k \in 0..MaxProps},
   nrelations : {0}]

\* lines 614-619: the sweep over the dimensions; st = [offset, size, dimoffset]
RECURSIVE SweepDimensions(_, _, _)
SweepDimensions(st, i, n) ==
  IF i >= n THEN st
  ELSE LET off == dlite_type_get_member_offset(st.offset, st.size, "dliteInt",
                                               SizeofSizeT)
       IN SweepDimensions([offset |-> off, size |-> SizeofInt,
                           dimoffset |-> IF i = 0 THEN off ELSE st.dimoffset],
                          i + 1, n)

\* lines 628-634: the storage form of a property
proptype(p) == IF p.ndims > 0 /\ p.dims THEN "dliteBlob" ELSE p.type
propsize(p) == IF p.ndims > 0 /\ p.dims THEN SizeofPtr ELSE p.size

\* lines 626-641: the sweep over the properties;
\* st = [offset, size, maxalign, propoffsets]
RECURSIVE SweepProperties(_, _, _)
SweepProperties(st, i, props) ==
  IF i > Len(props) THEN st
  ELSE LET p == props[i]
           off == dlite_type_get_member_offset(st.offset, st.size,
                                               proptype(p), propsize(p))
           align == dlite_type_get_alignment(proptype(p), propsize(p))
       IN SweepProperties(
            [offset |-> off, size |-> propsize(p),
             maxalign |-> IF align > st.maxalign THEN align ELSE st.maxalign,
             propoffsets |-> Append(st.propoffsets, off)],
            i + 1, props)

\* lines 644-648: the sweep over the relations; st = [offset, size]
RECURSIVE SweepRelations(_, _, _)
SweepRelations(st, i, n) ==
  IF i >= n THEN st
  ELSE SweepRelations(
         [offset |-> dlite_type_get_member_offset(st.offset, st.size,
                                                  "dliteStringPtr", SizeofPtr),
          size |-> SizeofPtr],
         i + 1, n)

\* dlite_meta_postinit(meta, 0): the layout of an instance of m
postinit(m) ==
  LET maxalign0 == dlite_type_get_alignment("dliteStringPtr", SizeofPtr)
      d == SweepDimensions([offset |-> OffsetofMeta, size |-> SizeofPtr,
                            dimoffset |-> 0], 0, m.ndimensions)
      dalign == dlite_type_get_alignment("dliteUInt", SizeofSizeT)
      maxalign1 == IF m.ndimensions > 0 /\ dalign > maxalign0
                   THEN dalign ELSE maxalign0
      p == SweepProperties([offset |-> d.offset, size |-> d.size,
                            maxalign |-> maxalign1, propoffsets |-> <<>>],
                           1, m.properties)
      r == SweepRelations([offset |-> p.offset, size |-> p.size], 0,
                          m.nrelations)
      offset == r.offset + r.size
      padding == (p.maxalign - (offset % p.maxalign)) % p.maxalign
  IN [ndimensions |-> m.ndimensions, properties |-> m.properties,
      nrelations |-> m.nrelations,
      dimoffset |-> d.dimoffset, propoffsets |-> p.propoffsets,
      reloffset |-> r.offset, size |-> offset + padding]

\* dlite_entity_create reaches dlite_meta_postinit(entity, 0)
dlite_meta_postinit ==
  \E m \in meta_in :
    /\ meta' = {postinit(m)}
    /\ meta_in' = {}
    /\ UNCHANGED <<uuidVars, urlVars, refVars, loadVars, restVars>>

InitLayout ==
  /\ IdleUuid /\ IdleUrl /\ IdleRef /\ IdleLoad /\ IdleRest
  /\ \E m \in Metas : meta_in = {m}
  /\ meta = {}

NextLayout == dlite_meta_postinit

SpecLayout == InitLayout /\ [][NextLayout]_vars

(***************************************************************************)
(* Layout: properties                                                      *)
(***************************************************************************)
PointerAlign == 8     \* alignment of a pointer slot
PointerWidth == 8     \* width of a pointer slot

\* alignment and footprint of the storage form of property p: the declared
\* scalar when ndims = 0, a pointer to the heap array when ndims > 0
StorageAlign(p) ==
  IF p.ndims > 0 THEN PointerAlign
  ELSE IF p.type \in {"dliteInt", "dliteUInt", "dliteFloat"} THEN p.size
  ELSE IF p.type = "dliteStringPtr" THEN PointerAlign
  ELSE 1

Footprint(p) == IF p.ndims > 0 THEN PointerWidth ELSE p.size

\* C6: every property offset is a multiple of the alignment of the
\* property's storage form, and the slot ends within entity.size.
C6_LayoutSound ==
  \A e \in meta : \A i \in 1..Len(e.properties) :
    /\ e.propoffsets[i] % StorageAlign(e.properties[i]) = 0
    /\ e.propoffsets[i] + Footprint(e.properties[i]) <= e.size

\* the part of C6 about the extent of the slots
C6_SlotsWithinSize ==
  \A e \in meta : \A i \in 1..Len(e.properties) :
    e.propoffsets[i] + Footprint(e.properties[i]) <= e.size

(***************************************************************************)
(* dlite-entity.c: reference counting of entities and instances            *)
(***************************************************************************)
MaxEntities == 2      \* entities created in a run
MaxInstances == 2     \* instances created in a run
MaxRefcount == 2      \* references taken on one entity

EntityIds == 1..MaxEntities
InstanceIds == 1..MaxInstances

\* a block not yet allocated
NoEntity == [state |-> "unused", refcount |-> 0, arrays |-> FALSE,
             unit |-> "none"]
NoInstance == [state |-> "unused", meta |-> 0]

\* dlite_meta_clear(meta); free(meta): the block is zeroed and released
Freed(m, unit) == [m EXCEPT !.state = "freed", !.refcount = 0, !.unit = unit]

dlite_meta_incref_skip(m) == m

\* dlite_meta_incref(meta)
dlite_meta_incref(m) == [m EXCEPT !.refcount = @ + 1]

\* dlite_meta_decref(meta) on the meta-entity, whose own meta is NULL
schema_decref(s) ==
  IF s.refcount - 1 <= 0
  THEN [s EXCEPT !.refcount = 0, !.state = "freed"]
  ELSE [s EXCEPT !.refcount = @ - 1]

\* dlite_meta_decref(meta) on an entity: at zero the meta-entity is
\* released and dlite_meta_clear frees all but the property units
dlite_meta_decref(m, s) ==
  IF m.refcount - 1 <= 0
  THEN [meta |-> Freed(m, "leaked"), schema |-> schema_decref(s)]
  ELSE [meta |-> [m EXCEPT !.refcount = @ - 1], schema |-> s]

dlite_entity_decref_keepmeta(m, s) ==
  IF m.refcount - 1 <= 0
  THEN [meta |-> Freed(m, "freed"), schema |-> s]
  ELSE [meta |-> [m EXCEPT !.refcount = @ - 1], schema |-> s]

\* dlite_entity_decref(entity): at zero dlite_entity_clear frees the units too
dlite_entity_decref(m, s) ==
  IF m.refcount - 1 <= 0
  THEN [meta |-> Freed(m, "freed"), schema |-> schema_decref(s)]
  ELSE [meta |-> [m EXCEPT !.refcount = @ - 1], schema |-> s]

\* the blocks are handed out in order
NextFree(blocks, n) == IF Len(blocks) < n THEN {Len(blocks) + 1} ELSE {}

\* dlite_entity_create(uri, description, ndimensions, dimensions,
\* nproperties, properties); arrays: some property has ndims > 0;
\* ok: no allocation fails and the uuid is generated
EntityCreate(arrays, ok) ==
  /\ ~crashed
  /\ \E e \in NextFree(entities, MaxEntities) :
       IF ok
       THEN /\ entities' = Append(entities,
                                  [state |-> "live", refcount |-> 1,
                                   arrays |-> arrays, unit |-> "owned"])
            /\ schema_entity' = dlite_meta_incref(schema_entity)
            /\ held' = Append(held, 1)
            /\ UNCHANGED <<instances, crashed>>
       ELSE UNCHANGED refVars
  /\ UNCHANGED <<uuidVars, urlVars, layoutVars, loadVars, restVars>>

\* dlite_entity_incref(entity) by a caller that holds the entity
EntityIncref(e) ==
  /\ ~crashed
  /\ entities[e].state = "live" /\ held[e] > 0
  /\ entities[e].refcount < MaxRefcount /\ held[e] < MaxRefcount
  /\ entities' = [entities EXCEPT ![e] = dlite_meta_incref(@)]
  /\ held' = [held EXCEPT ![e] = @ + 1]
  /\ UNCHANGED <<schema_entity, instances, crashed>>
  /\ UNCHANGED <<uuidVars, urlVars, layoutVars, loadVars, restVars>>

\* dlite_entity_decref(entity) by a caller that holds a reference
EntityDecref(e) ==
  /\ ~crashed
  /\ entities[e].state = "live" /\ held[e] > 0
  /\ LET r == dlite_entity_decref(entities[e], schema_entity) IN
       /\ entities' = [entities EXCEPT ![e] = r.meta]
       /\ schema_entity' = r.schema
  /\ held' = [held EXCEPT ![e] = @ - 1]
  /\ UNCHANGED <<instances, crashed>>
  /\ UNCHANGED <<uuidVars, urlVars, layoutVars, loadVars, restVars>>

\* somebody can still name entity e: a caller holding it, or an instance
Reachable(e) ==
  \/ held[e] > 0
  \/ \E i \in DOMAIN instances :
       instances[i].state = "live" /\ instances[i].meta = e

\* dlite_instance_create(meta, dims, id).  outcome: "ok"; "nomem", calloc of
\* the instance fails; "uuid", dlite_get_uuid returns -1; "array", calloc of
\* a property array returns NULL
InstanceCreate(e, outcome) ==
  /\ ~crashed
  /\ entities[e].state = "live" /\ Reachable(e)
  /\ entities[e].refcount < MaxRefcount
  /\ outcome = "array" => entities[e].arrays
  /\ \E i \in NextFree(instances, MaxInstances) :
       CASE outcome = "ok" ->
              /\ instances' = Append(instances, [state |-> "live", meta |-> e])
              /\ entities' = [entities EXCEPT ![e] = dlite_meta_incref(@)]
              /\ UNCHANGED <<schema_entity, held, crashed>>
         [] outcome = "nomem" ->
              UNCHANGED refVars
         [] outcome = "uuid" ->
              \* fail: dlite_instance_free(inst) reads inst->meta->nproperties
              \* with inst->meta still NULL
              /\ crashed' = TRUE
              /\ UNCHANGED <<schema_entity, entities, instances, held>>
         [] outcome = "array" ->
              \* fail: dlite_instance_free(inst) ends in dlite_meta_decref(meta)
              LET r == dlite_meta_decref(entities[e], schema_entity) IN
              /\ entities' = [entities EXCEPT ![e] = r.meta]
              /\ schema_entity' = r.schema
              /\ UNCHANGED <<instances, held, crashed>>
  /\ UNCHANGED <<uuidVars, urlVars, layoutVars, loadVars, restVars>>

\* dlite_instance_free(inst)
InstanceFree(i) ==
  /\ ~crashed
  /\ instances[i].state = "live"
  /\ entities[instances[i].meta].state = "live"
  /\ LET e == instances[i].meta
         r == dlite_meta_decref(entities[e], schema_entity)
     IN /\ entities' = [entities EXCEPT ![e] = r.meta]
        /\ schema_entity' = r.schema
  /\ instances' = [instances EXCEPT ![i].state = "freed"]
  /\ UNCHANGED <<held, crashed>>
  /\ UNCHANGED <<uuidVars, urlVars, layoutVars, loadVars, restVars>>

InitRef ==
  IdleUuid /\ IdleUrl /\ IdleLayout /\ IdleRef /\ IdleLoad /\ IdleRest

NextRef ==
  \/ \E arrays \in BOOLEAN, ok \in BOOLEAN : EntityCreate(arrays, ok)
  \/ \E e \in DOMAIN entities : EntityIncref(e)
  \/ \E e \in DOMAIN entities : EntityDecref(e)
  \/ \E e \in DOMAIN entities, outcome \in {"ok", "nomem", "uuid", "array"} :
       InstanceCreate(e, outcome)
  \/ \E i \in DOMAIN instances : InstanceFree(i)

SpecRef == InitRef /\ [][NextRef]_vars

(***************************************************************************)
(* Reference counting: properties                                          *)
(***************************************************************************)
LiveEntities == {e \in DOMAIN entities : entities[e].state = "live"}

LiveInstances(e) ==
  {i \in DOMAIN instances : instances[i].state = "live" /\ instances[i].meta = e}

\* C7: a successful dlite_instance_create raises the refcount of its entity
\* by exactly one and the dlite_instance_free of that instance lowers it by
\* exactly one, whatever other instances of the entity are created and freed
\* in between; so the pair leaves the refcount as it found it.
C7_CreateFreeRestores ==
  [][\A i \in DOMAIN instances' :
       /\ (i \notin DOMAIN instances) =>
            LET e == instances'[i].meta IN
            /\ instances'[i].state = "live"
            /\ entities'[e].state = "live"
            /\ entities'[e].refcount = entities[e].refcount + 1
       /\ (i \in DOMAIN instances /\ instances[i].state = "live"
           /\ instances'[i].state = "freed") =>
            LET e == instances[i].meta IN
            entities'[e].refcount = entities[e].refcount - 1]_vars

C7_Witness ==
  \E i, j \in DOMAIN instances :
    /\ instances[i].state = "freed" /\ instances[j].state = "live"
    /\ instances[i].meta = instances[j].meta
    /\ entities[instances[j].meta].refcount = held[instances[j].meta] + 1
    /\ held[instances[j].meta] > 0

\* C8: the meta-entity is never freed: its refcount is 1 plus the number of
\* live entities, hence at least 1.
C8_SchemaPinned ==
  /\ schema_entity.state = "live"
  /\ schema_entity.refcount = 1 + Cardinality(LiveEntities)
  /\ schema_entity.refcount >= 1

C8_Witness ==
  /\ \E e \in DOMAIN entities : entities[e].state = "freed"
  /\ \E e \in DOMAIN entities : entities[e].state = "live"
  /\ \E i \in DOMAIN instances : instances[i].state = "freed"
  /\ schema_entity.refcount = 2

\* the strong references to entity e: 1 from its creation, plus increfs and
\* successful instance creations, minus decrefs and instance frees
Owed(e) == held[e] + Cardinality(LiveInstances(e))

\* C9: an entity is destroyed exactly when its last strong reference drops
\* and never earlier; while an instance created from it is live it is not
\* freed.
C9_DestroyedAtLastReference ==
  \A e \in DOMAIN entities :
    /\ entities[e].state = "freed" <=> Owed(e) = 0
    /\ LiveInstances(e) # {} => entities[e].state = "live"

(***************************************************************************)
(* dlite-entity.c: dlite_entity_load                                       *)
(***************************************************************************)
DriverNames == {"json", "hdf5"}

\* a DLiteStorage: the name of its driver and whether the driver's api
\* provides getEntity
Storages == [name : DriverNames, getEntity : BOOLEAN]

\* the driver's getEntity(s, uuid): the entity stored under uuid, or NULL
\* when the driver fails
getEntity(s, uuid, driver_ok) ==
  IF driver_ok THEN {[uuid |-> uuid, from |-> s.name]} ELSE {}

\* dlite_entity_load(s, id): ret is the entity returned ({} for NULL), calls
\* the uuids getEntity was called with, err the diagnostics recorded
dlite_entity_load(s, p, old, r, status, up, driver_ok) ==
  LET u == getuuid(old, p, r, status, up)
      uuidver == u.version
  IN
  IF ~s.getEntity
  THEN [ret |-> {}, calls |-> {},
        err |-> {[what |-> "does not support getEntity()", driver |-> s.name]}]
  ELSE IF uuidver # 0 \/ uuidver # 5
  THEN [ret |-> {}, calls |-> {},
        err |-> {[what |-> "id is not an UUID", driver |-> ""]}]
  ELSE [ret |-> getEntity(s, u.buff, driver_ok), calls |-> {u.buff},
        err |-> {}]

\* errx(eval, msg, ...): records the diagnostic and returns eval
errx(eval, what, driver) ==
  [ret |-> eval, err |-> {[what |-> what, driver |-> driver]}]

EntityUris == {<<"e", "1">>, <<"e", "2">>}

\* a DLiteStorage handed to dlite_entity_save: the name of its driver,
\* whether the driver's api provides setEntity, and the entities it holds
SaveStorages ==
  [name : DriverNames, setEntity : BOOLEAN, content : SUBSET EntityUris]

\* the driver's setEntity(s, e): stores e and returns 0, or fails
setEntity(s, e, driver_ok) ==
  IF driver_ok THEN [ret |-> 0, content |-> s.content \cup {e.uri}]
  ELSE [ret |-> 2, content |-> s.content]

\* the guard of dlite_entity_save that reaches the driver with any api
dlite_entity_save_unguarded(s, e, driver_ok) ==
  LET r == setEntity(s, e, driver_ok)
  IN [ret |-> r.ret, calls |-> {e.uri}, err |-> {}, content |-> r.content,
      e |-> e]

\* dlite_entity_save(s, e): ret is the value returned, calls the entities
\* setEntity was called with, err the diagnostics recorded, content what the
\* storage holds and e the entity after the call
dlite_entity_save(s, e, driver_ok) ==
  IF ~s.setEntity
  THEN LET x == errx(1, "does not support setEntity()", s.name)
       IN [ret |-> x.ret, calls |-> {}, err |-> x.err,
           content |-> s.content, e |-> e]
  ELSE LET r == setEntity(s, e, driver_ok)
       IN [ret |-> r.ret, calls |-> {e.uri}, err |-> {},
           content |-> r.content, e |-> e]

EntityLoad ==
  \E c \in load_in :
    /\ loaded' = {[s |-> c.s, id |-> c.id, driver_ok |-> c.driver_ok,
                   uuid |-> getuuid(c.env.old, c.id, c.rng, c.env.status,
                                    c.env.up),
                   res |-> dlite_entity_load(c.s, c.id, c.env.old, c.rng,
                                             c.env.status, c.env.up,
                                             c.driver_ok)]}
    /\ load_in' = {}
    /\ UNCHANGED <<save_in, saved>>
    /\ UNCHANGED <<uuidVars, urlVars, layoutVars, refVars, restVars>>

EntitySave ==
  \E c \in save_in :
    /\ saved' = {[s |-> c.s, e |-> c.e, driver_ok |-> c.driver_ok,
                  res |-> dlite_entity_save(c.s, c.e, c.driver_ok)]}
    /\ save_in' = {}
    /\ UNCHANGED <<load_in, loaded>>
    /\ UNCHANGED <<uuidVars, urlVars, layoutVars, refVars, restVars>>

LoadCalls ==
  {[s |-> s, id |-> p, env |-> env, rng |-> r, driver_ok |-> ok] :
     s \in Storages, p \in Ids, env \in UNION {Envs(q) : q \in Ids},
     r \in 0..(RngPeriod - 1), ok \in BOOLEAN}

SaveCalls ==
  {[s |-> s, e |-> [uri |-> u, refcount |-> 1], driver_ok |-> ok] :
     s \in SaveStorages, u \in EntityUris, ok \in BOOLEAN}

InitLoad ==
  /\ IdleUuid /\ IdleUrl /\ IdleLayout /\ IdleRef /\ IdleRest
  /\ \E c \in LoadCalls : c.env \in Envs(c.id) /\ load_in = {c}
  /\ loaded = {}
  /\ \E c \in SaveCalls : save_in = {c}
  /\ saved = {}

NextLoad == EntityLoad \/ EntitySave

SpecLoad == InitLoad /\ [][NextLoad]_vars

(***************************************************************************)
(* Entity load: properties                                                 *)
(***************************************************************************)
\* C10: on a storage whose driver provides get_entity, with an id that is a
\* valid uuid or a name a version 5 uuid is derived from, dlite_entity_load
\* generates the uuid from id, calls the driver's get_entity(s, uuid) and
\* returns the entity the driver produced.
C10_LoadDispatches ==
  \A c \in loaded :
    (c.s.getEntity /\ IdClass(c.id) \in {"uuid", "name"}) =>
      /\ c.res.calls = {c.uuid.buff}
      /\ c.driver_ok => c.res.ret = {[uuid |-> c.uuid.buff, from |-> c.s.name]}

\* C11: on a storage whose driver lacks the capability, dlite_entity_load
\* returns NULL and dlite_entity_save returns non-zero; each records a
\* diagnostic with the driver's name, calls no driver function and leaves
\* the storage and the entity as they were.
C11_MissingCapability ==
  /\ \A c \in loaded :
       ~c.s.getEntity =>
         /\ c.res.ret = {} /\ c.res.calls = {}
         /\ \E d \in c.res.err : d.driver = c.s.name
  /\ \A c \in saved :
       ~c.s.setEntity =>
         /\ c.res.ret # 0 /\ c.res.calls = {}
         /\ \E d \in c.res.err : d.driver = c.s.name
         /\ c.res.content = c.s.content /\ c.res.e = c.e

C11_Witness ==
  /\ \E c \in loaded : ~c.s.getEntity /\ c.res.ret = {} /\ c.driver_ok
  /\ \E c \in saved :
       /\ ~c.s.setEntity /\ c.res.ret = 1 /\ c.driver_ok
       /\ c.e.uri \notin c.s.content

(***************************************************************************)
(* dlite-datamodel.c: the optional api of the datamodel facade             *)
(***************************************************************************)
OptionalApi ==
  {"setProperty", "setMetadata", "setDimensionSize", "hasDimension",
   "hasProperty"}

\* a DLitePlugin: its name and which optional function pointers are set
DmApis == [name : DriverNames, has : SUBSET OptionalApi]

MemberNames == {"n", "p"}

\* what the driver keeps for one datamodel: the metadata uri, the sizes of
\* the dimensions and the values of the properties set so far
DmData ==
  [metadata : {"", "m"},
   dims : {[x \in ns |-> 1] : ns \in SUBSET {"n"}},
   props : {[x \in ns |-> 1] : ns \in SUBSET {"p"}}]

\* the driver's functions behind the optional pointers; a failing driver
\* returns 3 and stores nothing
setProperty(data, name, v, driver_ok) ==
  IF driver_ok
  THEN [ret |-> 0,
        data |-> [data EXCEPT !.props =
                    [x \in DOMAIN data.props \cup {name} |->
                       IF x = name THEN v ELSE data.props[x]]]]
  ELSE [ret |-> 3, data |-> data]

setMetadata(data, metadata, driver_ok) ==
  IF driver_ok THEN [ret |-> 0, data |-> [data EXCEPT !.metadata = metadata]]
  ELSE [ret |-> 3, data |-> data]

setDimensionSize(data, name, size, driver_ok) ==
  IF driver_ok
  THEN [ret |-> 0,
        data |-> [data EXCEPT !.dims =
                    [x \in DOMAIN data.dims \cup {name} |->
                       IF x = name THEN size ELSE data.dims[x]]]]
  ELSE [ret |-> 3, data |-> data]

hasDimension(data, name, driver_ok) ==
  IF ~driver_ok THEN -3 ELSE IF name \in DOMAIN data.dims THEN 1 ELSE 0

hasProperty(data, name, driver_ok) ==
  IF ~driver_ok THEN -3 ELSE IF name \in DOMAIN data.props THEN 1 ELSE 0

\* what a facade call hands back: the value returned, the driver functions
\* called, the diagnostics recorded and the datamodel after the call
DmResult(ret, calls, err, data) ==
  [ret |-> ret, calls |-> calls, err |-> err, data |-> data]

\* dlite_datamodel_set_property without the test of the api pointer
dlite_datamodel_set_property_unguarded(d, name, v, driver_ok) ==
  LET r == setProperty(d.data, name, v, driver_ok)
  IN DmResult(r.ret, {"setProperty"}, {}, r.data)

dlite_datamodel_set_property(d, name, v, driver_ok) ==
  IF "setProperty" \notin d.api.has
  THEN LET x == errx(1, "does not support set_property", d.api.name)
       IN DmResult(x.ret, {}, x.err, d.data)
  ELSE LET r == setProperty(d.data, name, v, driver_ok)
       IN DmResult(r.ret, {"setProperty"}, {}, r.data)

dlite_datamodel_set_metadata(d, metadata, driver_ok) ==
  IF "setMetadata" \notin d.api.has
  THEN LET x == errx(1, "does not support set_metadata", d.api.name)
       IN DmResult(x.ret, {}, x.err, d.data)
  ELSE LET r == setMetadata(d.data, metadata, driver_ok)
       IN DmResult(r.ret, {"setMetadata"}, {}, r.data)

dlite_datamodel_set_dimension_size(d, name, size, driver_ok) ==
  IF "setDimensionSize" \notin d.api.has
  THEN LET x == errx(1, "does not support set_dimension_size", d.api.name)
       IN DmResult(x.ret, {}, x.err, d.data)
  ELSE LET r == setDimensionSize(d.data, name, size, driver_ok)
       IN DmResult(r.ret, {"setDimensionSize"}, {}, r.data)

dlite_datamodel_has_dimension(d, name, driver_ok) ==
  IF "hasDimension" \in d.api.has
  THEN DmResult(hasDimension(d.data, name, driver_ok), {"hasDimension"}, {},
                d.data)
  ELSE LET x == errx(-1, "does not support hasDimension()", d.api.name)
       IN DmResult(x.ret, {}, x.err, d.data)

dlite_datamodel_has_property(d, name, driver_ok) ==
  IF "hasProperty" \in d.api.has
  THEN DmResult(hasProperty(d.data, name, driver_ok), {"hasProperty"}, {},
                d.data)
  ELSE LET x == errx(-1, "does not support hasProperty()", d.api.name)
       IN DmResult(x.ret, {}, x.err, d.data)

\* one call of the facade's optional api, c = [op, d, name, v, driver_ok]
DatamodelCall ==
  \E c \in dm_in :
    /\ dm_out' =
         {[op |-> c.op, d |-> c.d, name |-> c.name, driver_ok |-> c.driver_ok,
           res |->
             CASE c.op = "setProperty" ->
                    dlite_datamodel_set_property(c.d, c.name, c.v, c.driver_ok)
               [] c.op = "setMetadata" ->
                    dlite_datamodel_set_metadata(c.d, c.name, c.driver_ok)
               [] c.op = "setDimensionSize" ->
                    dlite_datamodel_set_dimension_size(c.d, c.name, c.v,
                                                       c.driver_ok)
               [] c.op = "hasDimension" ->
                    dlite_datamodel_has_dimension(c.d, c.name, c.driver_ok)
               [] c.op = "hasProperty" ->
                    dlite_datamodel_has_property(c.d, c.name, c.driver_ok)]}
    /\ dm_in' = {}
    /\ UNCHANGED <<coreVars, instVars, collVars, plugVars, copyVars, jsonVars>>

DmCalls ==
  [op : OptionalApi, d : [api : DmApis, data : DmData], name : MemberNames,
   v : {2}, driver_ok : BOOLEAN]

InitDm ==
  /\ IdleUuid /\ IdleUrl /\ IdleLayout /\ IdleRef /\ IdleLoad
  /\ IdleInst /\ IdleColl /\ IdlePlug /\ IdleCopy /\ IdleJson
  /\ \E c \in DmCalls : dm_in = {c}
  /\ dm_out = {}

NextDm == DatamodelCall

SpecDm == InitDm /\ [][NextDm]_vars

(***************************************************************************)
(* Datamodel facade: properties                                            *)
(***************************************************************************)
\* C12: a call of dlite_datamodel_set_property, set_metadata or
\* set_dimension_size on a datamodel whose driver lacks the pointer returns
\* non-zero, and has_dimension or has_property returns a negative value;
\* each records a diagnostic naming the driver, calls no driver function
\* and leaves the datamodel as it was.
C12_OptionalApiGuard ==
  \A c \in dm_out :
    c.op \notin c.d.api.has =>
      /\ IF c.op \in {"hasDimension", "hasProperty"}
         THEN c.res.ret < 0 ELSE c.res.ret # 0
      /\ \E e \in c.res.err : e.driver = c.d.api.name
      /\ c.res.calls = {}
      /\ c.res.data = c.d.data

C12_Witness ==
  \E c \in dm_out :
    /\ c.op = "setProperty" /\ c.op \notin c.d.api.has /\ c.driver_ok
    /\ c.name \notin DOMAIN c.d.data.props
    /\ c.res.ret = 1

(***************************************************************************)
(* dlite-entity.c: instances.  The instance block and the heap arrays are  *)
(* modelled byte by byte (LP64, little endian); a byte is data, [p = 0, v],*)
(* or byte v of a pointer to heap object p.                                *)
(***************************************************************************)
MaxDimSize == 2       \* largest size of a dimension

Zero == [p |-> 0, v |-> 0]
Data(n) == [p |-> 0, v |-> n]

\* n zero bytes
Zeros(n) == [k \in 1..n |-> Zero]

\* the bytes of a size_t or an int holding n < 256
SizeBytes(n, width) == [k \in 1..width |-> IF k = 1 THEN Data(n) ELSE Zero]

\* the bytes of a pointer to heap object h; h = 0 is the NULL pointer
PtrBytes(h) ==
  [k \in 1..SizeofPtr |-> IF h = 0 THEN Zero ELSE [p |-> h, v |-> k - 1]]

\* a value read as an integer that has bytes set above its lowest one, or
\* a pointer read from bytes that are no pointer
Huge == 256
Wild == -1

\* memcpy(mem + off, bytes, Len(bytes)); mem is a function over its offsets
WriteBytes(mem, off, bytes) ==
  [o \in DOMAIN mem |->
     IF o >= off /\ o < off + Len(bytes) THEN bytes[o - off + 1] ELSE mem[o]]

\* the width bytes of mem at off, as a sequence (offsets outside mem give
\* no bytes)
ReadBytes(mem, off, width) ==
  IF \A k \in 0..(width - 1) : off + k \in DOMAIN mem
  THEN [k \in 1..width |-> mem[off + k - 1]]
  ELSE <<>>

\* an integer of the given width read at off
ReadInt(mem, off, width) ==
  LET b == ReadBytes(mem, off, width)
  IN IF b = <<>> THEN Huge
     ELSE IF b[1].p = 0 /\ \A k \in 2..width : b[k] = Zero THEN b[1].v
     ELSE Huge

\* a pointer read at off: 0 for NULL, the heap object, or Wild
ReadPtr(mem, off) ==
  LET b == ReadBytes(mem, off, SizeofPtr)
  IN IF b = <<>> THEN Wild
     ELSE IF b = PtrBytes(0) THEN 0
     ELSE IF b[1].p > 0 /\ b = PtrBytes(b[1].p) THEN b[1].p
     ELSE Wild

DimNames == <<"n1", "n2", "n3", "n4">>
PropNames == <<"p1", "p2", "p3", "p4">>

\* the (type, size) pairs the properties of the instances have
InstTypes ==
  {[type |-> "dliteUInt", size |-> 4],
   [type |-> "dliteStringPtr", size |-> SizeofPtr]}

\* the properties of an entity with nd dimensions: scalars, and arrays over
\* one of the dimensions (dimidx holds p->dims)
InstProperties(nd) ==
  {[type |-> t.type, size |-> t.size, ndims |-> 0, dims |-> FALSE,
    dimidx |-> <<>>] : t \in InstTypes}
  \cup {[type |-> t.type, size |-> t.size, ndims |-> 1, dims |-> TRUE,
         dimidx |-> <<j>>] : t \in InstTypes, j \in 0..(nd - 1)}

\* dlite_entity_create: the entity with its layout from dlite_meta_postinit
Entity(uri, nd, props) ==
  LET l == postinit([ndimensions |-> nd, properties |-> props,
                     nrelations |-> 0])
  IN [uri |-> uri, ndimensions |-> nd, nproperties |-> Len(props),
      properties |-> props, dimoffset |-> l.dimoffset,
      propoffsets |-> l.propoffsets, size |-> l.size]

\* the entities with uri "e/1": their properties refer to dimensions the
\* entity declares
InstEntities ==
  UNION {{Entity("e/1", nd, props) :
            props \in UNION {[1..k -> InstProperties(nd)] : k \in 0..MaxProps}} :
           nd \in 0..MaxDims}

\* the strings of the caller, as heap objects 1 and 2
CallerHeap ==
  <<[live |-> TRUE, owner |-> "caller", bytes |-> <<Data(1), Zero>>],
    [live |-> TRUE, owner |-> "caller", bytes |-> <<Data(2), Data(2), Zero>>]>>

\* the body of the instance block: what follows the header
Body(e) == (OffsetofMeta + SizeofPtr)..(e.size - 1)

\* nmemb of property p computed from the sizes dims (a function over 0..)
Nmemb(p, dims) ==
  IF p.dims /\ p.ndims > 0
  THEN IF dims[p.dimidx[1]] >= Huge THEN Huge ELSE dims[p.dimidx[1]]
  ELSE 1

\* lines 86-96: allocate the arrays of the properties from i on;
\* st = [mem, heap, failed]
RECURSIVE AllocArrays(_, _, _, _, _)
AllocArrays(st, i, e, dims, zero_null) ==
  IF i > e.nproperties \/ st.failed THEN st
  ELSE LET p == e.properties[i]
           nmemb == Nmemb(p, dims)
           h == Len(st.heap) + 1
       IN IF p.ndims > 0 /\ p.dims
          THEN IF (nmemb = 0 /\ zero_null) \/ nmemb >= Huge
               THEN [st EXCEPT !.failed = TRUE]
               ELSE AllocArrays(
                      [mem |-> WriteBytes(st.mem, e.propoffsets[i],
                                          PtrBytes(h)),
                       heap |-> Append(st.heap,
                                       [live |-> TRUE, owner |-> "inst",
                                        bytes |-> Zeros(nmemb * p.size)]),
                       failed |-> FALSE],
                      i + 1, e, dims, zero_null)
          ELSE AllocArrays(st, i + 1, e, dims, zero_null)

\* lines 80-83: memcpy of dims into the dimension slots
RECURSIVE CopyDims(_, _, _, _)
CopyDims(mem, k, e, dims) ==
  IF k >= e.ndimensions THEN mem
  ELSE CopyDims(WriteBytes(mem, e.dimoffset + k * SizeofSizeT,
                           SizeBytes(dims[k], SizeofSizeT)),
                k + 1, e, dims)

\* dlite_instance_create(meta, dims, id) with a heap that holds the caller's
\* objects; u is dlite_get_uuid(uuid, id) and zero_null tells whether
\* calloc(0, size) returns NULL.  The result is the instance, or none; its
\* fields dims (the dims argument) and touched (a property was set since)
\* are kept for the properties below.
instance_create(e, dims, id, u, heap, zero_null) ==
  LET mem0 == [o \in Body(e) |-> Zero]
      mem1 == CopyDims(mem0, 0, e, dims)
      st == AllocArrays([mem |-> mem1, heap |-> heap, failed |-> FALSE], 1,
                        e, dims, zero_null)
  IN IF u.version < 0 \/ st.failed THEN {}
     ELSE {[uuid |-> u.buff,
            uri |-> IF u.version = 5 THEN id ELSE NULL,
            meta |-> e.uri, mem |-> st.mem, heap |-> st.heap,
            dims |-> dims, touched |-> FALSE]}

\* dlite_meta_get_dimension_index(meta, name): the index, or -1
dlite_meta_get_dimension_index(e, name) ==
  IF \E i \in 0..(e.ndimensions - 1) : DimNames[i + 1] = name
  THEN CHOOSE i \in 0..(e.ndimensions - 1) :
         /\ DimNames[i + 1] = name
         /\ \A j \in 0..(i - 1) : DimNames[j + 1] # name
  ELSE -1

\* dlite_meta_get_property_index(meta, name): the index, or -1
dlite_meta_get_property_index(e, name) ==
  IF \E i \in 0..(e.nproperties - 1) : PropNames[i + 1] = name
  THEN CHOOSE i \in 0..(e.nproperties - 1) :
         /\ PropNames[i + 1] = name
         /\ \A j \in 0..(i - 1) : PropNames[j + 1] # name
  ELSE -1

\* the read dimensions[i] of the accessors: the value as an int, and
\* whether the read left the dimension array
ReadDimension(e, x, i) ==
  [ret |-> ReadInt(x.mem, e.dimoffset + i * SizeofSizeT, SizeofInt),
   oob |-> i >= e.ndimensions]

\* dlite_instance_get_dimension_size_by_index(inst, i)
dlite_instance_get_dimension_size_by_index(e, x, i) ==
  IF i >= e.nproperties THEN [ret |-> -1, oob |-> FALSE]
  ELSE ReadDimension(e, x, i)

\* dlite_instance_get_dimension_size(inst, name)
dlite_instance_get_dimension_size(e, x, name) ==
  LET i == dlite_meta_get_dimension_index(e, name)
  IN IF i < 0 THEN [ret |-> -1, oob |-> FALSE]
     ELSE IF i >= e.nproperties THEN [ret |-> -1, oob |-> FALSE]
     ELSE ReadDimension(e, x, i)

\* a place in memory: offset off of the instance block (h = 0) or of heap
\* object h
Loc(h, off) == [h |-> h, off |-> off]

\* the bytes of instance x at place loc
Fetch(x, loc, width) ==
  IF loc.h = 0 THEN ReadBytes(x.mem, loc.off, width)
  ELSE ReadBytes(x.heap[loc.h].bytes, loc.off + 1, width)

FetchPtr(x, loc) ==
  IF loc.h = 0 THEN ReadPtr(x.mem, loc.off)
  ELSE ReadPtr(x.heap[loc.h].bytes, loc.off + 1)

\* memcpy(loc, bytes, Len(bytes)) in instance x
Store(x, loc, bytes) ==
  IF loc.h = 0 THEN [x EXCEPT !.mem = WriteBytes(x.mem, loc.off, bytes)]
  ELSE [x EXCEPT !.heap[loc.h].bytes =
                   WriteBytes(x.heap[loc.h].bytes, loc.off + 1, bytes)]

\* the sizes in the dimension slots of x, as the setter reads them
StoredDims(e, x) ==
  [k \in 0..(e.ndimensions - 1) |->
     ReadInt(x.mem, e.dimoffset + k * SizeofSizeT, SizeofSizeT)]

\* lines 284-285: where the values of property i (1-based) are: its slot,
\* or the heap array its slot points to
PropertyDest(e, x, i) ==
  LET p == e.properties[i]
  IN IF p.ndims > 0 /\ p.dims
     THEN Loc(ReadPtr(x.mem, e.propoffsets[i]), 0)
     ELSE Loc(0, e.propoffsets[i])

\* lines 292-296: q[n] = realloc(q[n], len); memcpy(q[n], src[n], len) for
\* the elements from n on; st = [x, ub]
RECURSIVE CopyStrings(_, _, _, _, _)
CopyStrings(st, dest, n, nmemb, src) ==
  IF n >= nmemb \/ st.ub THEN st
  ELSE LET x == st.x
           at == Loc(dest.h, dest.off + n * SizeofPtr)
           q == FetchPtr(x, at)
           str == x.heap[src[n + 1]].bytes
           new == [live |-> TRUE, owner |-> "inst", bytes |-> str]
       IN IF q = Wild \/ ~x.heap[src[n + 1]].live
          THEN [st EXCEPT !.ub = TRUE]
          ELSE IF q = 0
          THEN CopyStrings(
                 [x |-> Store([x EXCEPT !.heap = Append(x.heap, new)], at,
                              PtrBytes(Len(x.heap) + 1)),
                  ub |-> FALSE],
                 dest, n + 1, nmemb, src)
          ELSE CopyStrings([x |-> [x EXCEPT !.heap[q] = new], ub |-> FALSE],
                           dest, n + 1, nmemb, src)

\* dlite_instance_set_property_by_index(inst, i, ptr), i 0-based; src is
\* what ptr points to: the bytes of the values, or for a string property
\* the heap objects of the caller's strings.  ub: the call read or wrote
\* outside the objects involved.
dlite_instance_set_property_by_index(e, x, i, src) ==
  LET p == e.properties[i + 1]
      dims == StoredDims(e, x)
      dest == PropertyDest(e, x, i + 1)
      nmemb == Nmemb(p, dims)
  IN IF dest.h = Wild \/ nmemb >= Huge
     THEN [ret |-> 0, ub |-> TRUE, x |-> x]
     ELSE IF p.type = "dliteStringPtr"
     THEN IF nmemb > Len(src)
          THEN [ret |-> 0, ub |-> TRUE, x |-> x]
          ELSE LET st == CopyStrings([x |-> x, ub |-> FALSE], dest, 0, nmemb,
                                     src)
               IN [ret |-> 0, ub |-> st.ub,
                   x |-> [st.x EXCEPT !.touched = TRUE]]
     ELSE IF nmemb * p.size > Len(src)
     THEN [ret |-> 0, ub |-> TRUE, x |-> x]
     ELSE [ret |-> 0, ub |-> FALSE,
           x |-> [Store(x, dest, SubSeq(src, 1, nmemb * p.size))
                    EXCEPT !.touched = TRUE]]

\* dlite_instance_set_property(inst, name, ptr)
dlite_instance_set_property(e, x, name, src) ==
  LET i == dlite_meta_get_property_index(e, name)
  IN IF i < 0 THEN [ret |-> 1, ub |-> FALSE, x |-> x]
     ELSE dlite_instance_set_property_by_index(e, x, i, src)

\* the values of n elements of the given size starting with b, as bytes
RECURSIVE ValueBytes(_, _, _)
ValueBytes(b, n, size) ==
  IF n = 0 THEN <<>>
  ELSE SizeBytes(b, size) \o ValueBytes(b + 1, n - 1, size)

\* what a caller passes to set property i (1-based) of an instance created
\* with sizes dims to values that start with b
Source(e, dims, i, b) ==
  LET p == e.properties[i]
      n == Nmemb(p, dims)
  IN IF p.type = "dliteStringPtr"
     THEN [k \in 1..n |-> ((b + k) % 2) + 1]
     ELSE ValueBytes(b, n, p.size)

\* the string a pointer read at loc points to: no bytes for NULL
StringAt(x, loc) ==
  LET q == FetchPtr(x, loc)
  IN IF q = 0 THEN <<>>
     ELSE IF q = Wild \/ ~x.heap[q].live THEN <<[p |-> Wild, v |-> 0]>>
     ELSE x.heap[q].bytes

\* the value of property i (1-based) read through
\* dlite_instance_get_property: the bytes of its n elements, or its n strings
PropValue(e, x, i, n) ==
  LET p == e.properties[i]
      dest == PropertyDest(e, x, i)
  IN IF p.type = "dliteStringPtr"
     THEN [k \in 1..n |->
             IF dest.h = Wild THEN <<[p |-> Wild, v |-> 0]>>
             ELSE StringAt(x, Loc(dest.h, dest.off + (k - 1) * SizeofPtr))]
     ELSE IF dest.h = Wild THEN [k \in 1..(n * p.size) |-> [p |-> Wild, v |-> 0]]
     ELSE Fetch(x, dest, n * p.size)

(***************************************************************************)
(* dlite-entity.c: dlite_instance_save and dlite_instance_load, over a     *)
(* driver that stores and returns what it is given.  The driver calls of   *)
(* one operation are numbered from 1; call number fail_at reports an error *)
(* (0: none does).                                                         *)
(***************************************************************************)
\* what the driver holds for a uuid that was never written
NoEntry(uuid) == [uuid |-> uuid, metadata |-> {}, dims |-> <<>>, props |-> <<>>]

\* the driver's entry for uuid
EntryOf(st, uuid) ==
  IF \E d \in st : d.uuid = uuid THEN CHOOSE d \in st : d.uuid = uuid
  ELSE NoEntry(uuid)

\* the storage with the entry of d.uuid replaced by d
PutEntry(st, d) == {o \in st : o.uuid # d.uuid} \cup {d}

\* the uuid of id as dlite_get_uuid gives it
InstUuid(id) == getuuid(CHOOSE o \in OldBuffs : TRUE, id, 0, 0, FALSE)

\* lines 220-223: set_dimension_size for the dimensions from k on;
\* st = [d, calls, failed]
RECURSIVE SaveDimensions(_, _, _, _, _)
SaveDimensions(st, k, e, x, fail_at) ==
  IF k >= e.ndimensions \/ st.failed THEN st
  ELSE LET size == ReadInt(x.mem, e.dimoffset + k * SizeofSizeT, SizeofInt)
           calls == Append(st.calls, <<"setDimensionSize", DimNames[k + 1]>>)
       IN IF Len(calls) = fail_at
          THEN [st EXCEPT !.calls = calls, !.failed = TRUE]
          ELSE SaveDimensions(
                 [d |-> [st.d EXCEPT !.dims =
                           Append(st.d.dims, [name |-> DimNames[k + 1],
                                              size |-> size])],
                  calls |-> calls, failed |-> FALSE, ub |-> st.ub],
                 k + 1, e, x, fail_at)

\* lines 231-239: set_property for the properties from i (1-based) on
RECURSIVE SaveProperties(_, _, _, _, _)
SaveProperties(st, i, e, x, fail_at) ==
  IF i > e.nproperties \/ st.failed THEN st
  ELSE LET p == e.properties[i]
           nmemb == Nmemb(p, StoredDims(e, x))
           calls == Append(st.calls, <<"setProperty", PropNames[i]>>)
       IN IF Len(calls) = fail_at
          THEN [st EXCEPT !.calls = calls, !.failed = TRUE]
          ELSE IF nmemb >= Huge
          THEN [st EXCEPT !.calls = calls, !.failed = TRUE, !.ub = TRUE]
          ELSE SaveProperties(
                 [d |-> [st.d EXCEPT !.props =
                           Append(st.d.props,
                                  [name |-> PropNames[i], nmemb |-> nmemb,
                                   value |-> PropValue(e, x, i, nmemb)])],
                  calls |-> calls, failed |-> FALSE, ub |-> st.ub],
                 i + 1, e, x, fail_at)

\* dlite_instance_save(s, inst): ret, the driver calls made in order, the
\* storage after the call and ub (pdims is freed before it was assigned)
dlite_instance_save(st, e, x, fail_at) ==
  LET d0 == NoEntry(x.uuid)
      c1 == <<<<"dataModel", "">>>>
      c2 == Append(c1, <<"setMetadata", e.uri>>)
  IN IF fail_at = 1
     THEN [ret |-> 1, storage |-> st, ub |-> TRUE, calls |-> c1]
     ELSE IF fail_at = 2
     THEN [ret |-> 1, storage |-> st, ub |-> TRUE,
           calls |-> Append(c2, <<"dataModelFree", "">>)]
     ELSE LET sd == SaveDimensions([d |-> [d0 EXCEPT !.metadata = {e.uri}],
                                    calls |-> c2, failed |-> FALSE,
                                    ub |-> FALSE], 0, e, x, fail_at)
              sp == SaveProperties(sd, 1, e, x, fail_at)
          IN [ret |-> IF sp.failed THEN 1 ELSE 0,
              storage |-> PutEntry(st, sp.d),
              ub |-> sd.failed \/ sp.ub,
              calls |-> Append(sp.calls, <<"dataModelFree", "">>)]

\* the driver's getDimensionSize(d, name): the stored size, or -1
getDimensionSize(d, name) ==
  IF \E k \in 1..Len(d.dims) : d.dims[k].name = name
  THEN d.dims[CHOOSE k \in 1..Len(d.dims) : d.dims[k].name = name].size
  ELSE -1

\* lines 169-172: the dimension sizes from k on; a size_t takes the int the
\* datamodel returns, so -1 becomes SIZE_MAX; st = [dims, calls, failed]
RECURSIVE LoadDimensions(_, _, _, _, _)
LoadDimensions(st, k, e, d, fail_at) ==
  IF k >= e.ndimensions \/ st.failed THEN st
  ELSE LET calls == Append(st.calls, <<"getDimensionSize", DimNames[k + 1]>>)
           r == IF Len(calls) = fail_at THEN -1
                ELSE getDimensionSize(d, DimNames[k + 1])
           size == IF r < 0 THEN Huge ELSE r
       IN IF size = 0
          THEN [st EXCEPT !.calls = calls, !.failed = TRUE]
          ELSE LoadDimensions(
                 [dims |-> [j \in 0..k |-> IF j = k THEN size ELSE st.dims[j]],
                  calls |-> calls, failed |-> FALSE],
                 k + 1, e, d, fail_at)

\* the driver's getProperty(d, name, ptr, ...) writing the stored value of
\* property i (1-based) to dest: bytes are copied, strings are allocated
RECURSIVE WriteStrings(_, _, _, _)
WriteStrings(x, dest, n, strs) ==
  IF n >= Len(strs) THEN x
  ELSE IF strs[n + 1] = <<>> THEN WriteStrings(x, dest, n + 1, strs)
  ELSE WriteStrings(
         Store([x EXCEPT !.heap =
                  Append(x.heap, [live |-> TRUE, owner |-> "inst",
                                  bytes |-> strs[n + 1]])],
               Loc(dest.h, dest.off + n * SizeofPtr),
               PtrBytes(Len(x.heap) + 1)),
         dest, n + 1, strs)

\* lines 183-190: get_property for the properties from i (1-based) on;
\* st = [x, calls, failed]
RECURSIVE LoadProperties(_, _, _, _, _, _)
LoadProperties(st, i, e, d, dims, fail_at) ==
  IF i > e.nproperties \/ st.failed THEN st
  ELSE LET p == e.properties[i]
           calls == Append(st.calls, <<"getProperty", PropNames[i]>>)
           dest == PropertyDest(e, st.x, i)
           nmemb == Nmemb(p, dims)
           found == {k \in 1..Len(d.props) : d.props[k].name = PropNames[i]}
           stored == d.props[CHOOSE k \in found : TRUE]
       IN IF Len(calls) = fail_at \/ found = {} \/ dest.h = Wild
          THEN [st EXCEPT !.calls = calls, !.failed = TRUE]
          ELSE IF stored.nmemb # nmemb
          THEN [st EXCEPT !.calls = calls, !.failed = TRUE]
          ELSE LoadProperties(
                 [x |-> IF p.type = "dliteStringPtr"
                        THEN WriteStrings(st.x, dest, 0, stored.value)
                        ELSE Store(st.x, dest, stored.value),
                  calls |-> calls, failed |-> FALSE],
                 i + 1, e, d, dims, fail_at)

\* what dlite_instance_load hands back: the instance returned (none for
\* NULL), the driver calls made, the number of instances it created, and ub:
\* on this path the uninitialised pointer inst is tested and, where it is
\* not NULL, passed to dlite_instance_free
LoadResult(ret, calls, created, ub) ==
  [ret |-> ret, calls |-> calls, created |-> created, ub |-> ub]

\* dlite_instance_load(s, id, entity) on storage st with the caller's heap
dlite_instance_load(st, id, e, heap, zero_null, fail_at) ==
  LET u == InstUuid(id)
      d == EntryOf(st, u.buff)
      c1 == <<<<"dataModel", "">>>>
      c2 == Append(c1, <<"getMetadata", "">>)
      free == <<"dataModelFree", "">>
  IN IF u.version < 0 \/ fail_at = 1 THEN LoadResult({}, c1, 0, TRUE)
     ELSE IF fail_at = 2 \/ d.metadata = {}
     THEN LoadResult({}, Append(c2, free), 0, TRUE)
     ELSE IF d.metadata # {e.uri}
     THEN LoadResult({}, Append(c2, free), 0, TRUE)
     ELSE IF e.ndimensions = 0 /\ zero_null
     THEN LoadResult({}, Append(c2, free), 0, TRUE)
     ELSE
       LET ld == LoadDimensions([dims |-> <<>>, calls |-> c2,
                                 failed |-> FALSE], 0, e, d, fail_at)
           created == instance_create(e, ld.dims, id, u, heap, zero_null)
       IN IF ld.failed THEN LoadResult({}, Append(ld.calls, free), 0, TRUE)
          ELSE IF created = {}
          THEN LoadResult({}, Append(ld.calls, free), 0, FALSE)
          ELSE LET x == CHOOSE c \in created : TRUE
                   lp == LoadProperties([x |-> x, calls |-> ld.calls,
                                         failed |-> FALSE], 1, e, d, ld.dims,
                                        fail_at)
               IN IF lp.failed
                  THEN LoadResult({}, Append(lp.calls, free), 1, FALSE)
                  ELSE LoadResult({lp.x}, Append(lp.calls, free), 1, FALSE)

(***************************************************************************)
(* Instances: the operations a caller performs on one instance             *)
(***************************************************************************)
InstIds == {NULL, Str(<<"a">>)}

\* the values set_property is called with start with one of these
SourceValues == {1, 2}

\* the driver calls of one save or load are at most this many
MaxCalls == 2 + MaxDims + MaxProps

\* the id of instance x as a string
UuidOf(x) == Str(SubSeq(x.uuid, 1, UUID_LEN))

\* the calls that only report: the caller's scenario ends with one
Reports ==
  {"get_dimension_size_by_index", "get_dimension_size", "load"}

Reported == \E c \in obs : c.op \in Reports

InstanceCreateDims(dims, id, zero_null) ==
  /\ inst = {} /\ obs = {}
  /\ \E e \in entity :
       /\ dims \in [0..(e.ndimensions - 1) -> 0..MaxDimSize]
       /\ inst' = instance_create(e, dims, id, InstUuid(id), CallerHeap,
                                  zero_null)
       /\ obs' = {[op |-> "create", res |-> [ret |-> inst' # {}]]}
  /\ UNCHANGED <<entity, storage>>
  /\ UNCHANGED <<coreVars, dmVars, collVars, plugVars, copyVars, jsonVars>>

GetDimensionSizeByIndex(i) ==
  /\ ~Reported
  /\ \E e \in entity, x \in inst :
       obs' = {[op |-> "get_dimension_size_by_index", i |-> i,
                res |-> dlite_instance_get_dimension_size_by_index(e, x, i)]}
  /\ UNCHANGED <<entity, inst, storage>>
  /\ UNCHANGED <<coreVars, dmVars, collVars, plugVars, copyVars, jsonVars>>

GetDimensionSize(name) ==
  /\ ~Reported
  /\ \E e \in entity, x \in inst :
       obs' = {[op |-> "get_dimension_size", name |-> name,
                res |-> dlite_instance_get_dimension_size(e, x, name)]}
  /\ UNCHANGED <<entity, inst, storage>>
  /\ UNCHANGED <<coreVars, dmVars, collVars, plugVars, copyVars, jsonVars>>

\* dlite_instance_set_property(inst, name, src) with src made for the sizes
\* the instance was created with, while the caller's strings are intact;
\* properties are set before the instance is saved
SetProperty(name, b) ==
  /\ ~Reported /\ storage = {}
  /\ \E e \in entity, x \in inst :
       /\ x.heap[2].live
       /\ LET i == dlite_meta_get_property_index(e, name)
              src == IF i < 0 THEN <<>> ELSE Source(e, x.dims, i + 1, b)
              r == dlite_instance_set_property(e, x, name, src)
          IN /\ inst' = {r.x}
             /\ obs' = {[op |-> "set_property", name |-> name, b |-> b,
                         res |-> [ret |-> r.ret, ub |-> r.ub], before |-> x]}
  /\ UNCHANGED <<entity, storage>>
  /\ UNCHANGED <<coreVars, dmVars, collVars, plugVars, copyVars, jsonVars>>

\* the caller overwrites one of its strings and frees the other
CallerScribble ==
  /\ ~Reported
  /\ \E x \in inst :
       /\ x.heap[2].live
       /\ inst' = {[x EXCEPT !.heap[1].bytes = <<Data(3), Zero>>,
                             !.heap[2].live = FALSE]}
  /\ UNCHANGED <<entity, storage, obs>>
  /\ UNCHANGED <<coreVars, dmVars, collVars, plugVars, copyVars, jsonVars>>

\* dlite_instance_save(s, inst) to a storage that holds nothing yet
InstanceSave(fail_at) ==
  /\ ~Reported /\ storage = {}
  /\ \E e \in entity, x \in inst :
       LET r == dlite_instance_save(storage, e, x, fail_at)
       IN /\ storage' = r.storage
          /\ obs' = {[op |-> "save", fail_at |-> fail_at,
                      res |-> [ret |-> r.ret, ub |-> r.ub, calls |-> r.calls]]}
  /\ UNCHANGED <<entity, inst>>
  /\ UNCHANGED <<coreVars, dmVars, collVars, plugVars, copyVars, jsonVars>>

\* a save that wrote everything: its driver calls all succeeded
SavedAll ==
  \E c \in obs : c.op = "save" /\ c.res.ret = 0

\* dlite_instance_load(s, id, entity) where entity has the given uri; the
\* driver fails during a load only of what a save wrote completely
InstanceLoad(id, uri, zero_null, fail_at) ==
  /\ ~Reported
  /\ fail_at # 0 => SavedAll
  /\ \E e \in entity, x \in inst :
       /\ id \in {UuidOf(x), Str(<<"G">>)}
       /\ obs' = {[op |-> "load", id |-> id, uri |-> uri,
                   fail_at |-> fail_at, zero_null |-> zero_null,
                   stored |-> EntryOf(storage, InstUuid(id).buff),
                   res |-> dlite_instance_load(storage, id,
                                               [e EXCEPT !.uri = uri], x.heap,
                                               zero_null, fail_at)]}
  /\ UNCHANGED <<entity, inst, storage>>
  /\ UNCHANGED <<coreVars, dmVars, collVars, plugVars, copyVars, jsonVars>>

InitInst ==
  /\ IdleUuid /\ IdleUrl /\ IdleLayout /\ IdleRef /\ IdleLoad
  /\ IdleDm /\ IdleColl /\ IdlePlug /\ IdleCopy /\ IdleJson
  /\ \E e \in InstEntities : entity = {e}
  /\ inst = {}
  /\ storage = {}
  /\ obs = {}

\* creating an instance, reading its dimension sizes, setting properties
NextInst ==
  \/ \E e \in entity, id \in InstIds, zero_null \in BOOLEAN :
       \E dims \in [0..(e.ndimensions - 1) -> 0..MaxDimSize] :
         InstanceCreateDims(dims, id, zero_null)
  \/ \E i \in 0..MaxDims : GetDimensionSizeByIndex(i)
  \/ \E k \in 1..(MaxDims + 1) : GetDimensionSize(DimNames[k])
  \/ \E k \in 1..(MaxProps + 1), b \in SourceValues :
       SetProperty(PropNames[k], b)
  \/ CallerScribble

SpecInst == InitInst /\ [][NextInst]_vars

\* creating an instance, setting properties, saving it and loading it back
NextStore ==
  \/ \E e \in entity, zero_null \in BOOLEAN :
       \E dims \in [0..(e.ndimensions - 1) -> 0..MaxDimSize] :
         InstanceCreateDims(dims, Str(<<"a">>), zero_null)
  \/ \E k \in 1..MaxProps : SetProperty(PropNames[k], 1)
  \/ \E fail_at \in 0..MaxCalls : InstanceSave(fail_at)
  \/ \E x \in inst, uri \in {"e/1", "e/2"}, zero_null \in BOOLEAN,
        fail_at \in 0..MaxCalls :
       \E id \in {UuidOf(x), Str(<<"G">>)} :
         InstanceLoad(id, uri, zero_null, fail_at)

SpecStore == InitInst /\ [][NextStore]_vars

(***************************************************************************)
(* Instances: properties                                                   *)
(***************************************************************************)
\* the driver wrote the metadata uri and every dimension and property of e
Complete(e, d) ==
  /\ d.metadata # {}
  /\ Len(d.dims) = e.ndimensions /\ Len(d.props) = e.nproperties

\* the sizes x was created with, as nmemb of property i (1-based)
CreatedNmemb(e, x, i) == Nmemb(e.properties[i], x.dims)

\* C13: dlite_instance_load returns NULL and creates no instance whenever
\* the metadata uri the datamodel reports differs from entity.uri; it
\* returns an instance only if the two are equal.
C13_UriMustMatch ==
  \A c \in obs :
    c.op = "load" =>
      /\ (c.fail_at = 0 /\ c.stored.metadata # {}
          /\ c.stored.metadata # {c.uri}) =>
           c.res.ret = {} /\ c.res.created = 0 /\ ~c.res.ub
      /\ c.res.ret # {} => c.stored.metadata = {c.uri}

\* C14: after dlite_instance_save(s, inst) to a driver that stores what it
\* is given, dlite_instance_load(s, inst.uuid, entity) returns an instance
\* with the dimension sizes and the property values of inst, for any sizes
\* (0 included).
C14_SaveLoadFidelity ==
  \A e \in entity, x \in inst, c \in obs :
    (/\ c.op = "load" /\ c.fail_at = 0 /\ ~c.zero_null
     /\ c.id = UuidOf(x) /\ c.uri = e.uri
     /\ Complete(e, EntryOf(storage, x.uuid))) =>
      /\ c.res.ret # {}
      /\ \A y \in c.res.ret :
           /\ StoredDims(e, y) = StoredDims(e, x)
           /\ \A i \in 1..e.nproperties :
                PropValue(e, y, i, CreatedNmemb(e, x, i))
                  = PropValue(e, x, i, CreatedNmemb(e, x, i))

\* the index of a dimension name among all names
NameIndex(names, name) == CHOOSE k \in 0..(Len(names) - 1) : names[k + 1] = name

\* C15: on an instance created with sizes dims, the size of dimension k,
\* asked by name or by index, is dims[k]; an unknown name and an index
\* k >= ndimensions give -1, without a read outside the dimension array.
C15_DimensionSizes ==
  \A e \in entity, x \in inst, c \in obs :
    ~x.touched =>
      /\ c.op = "get_dimension_size_by_index" =>
           /\ ~c.res.oob
           /\ c.res.ret = IF c.i < e.ndimensions THEN x.dims[c.i] ELSE -1
      /\ c.op = "get_dimension_size" =>
           LET k == NameIndex(DimNames, c.name)
           IN /\ ~c.res.oob
              /\ c.res.ret = IF k < e.ndimensions THEN x.dims[k] ELSE -1

\* what the property holds after it was set from the caller's values that
\* start with b
Expected(e, x, i, b) ==
  LET src == Source(e, x.dims, i, b)
  IN IF e.properties[i].type = "dliteStringPtr"
     THEN [k \in 1..Len(src) |-> CallerHeap[src[k]].bytes]
     ELSE src

\* C16: after a successful dlite_instance_set_property(inst, name, src) the
\* property's storage holds a copy of src: of its bytes, or of each of its
\* strings, whatever the caller does with its strings later; no other
\* property, no dimension size and neither uuid nor uri has changed.
C16_SetPropertyCopies ==
  \A e \in entity, x \in inst, c \in obs :
    (c.op = "set_property" /\ c.res.ret = 0) =>
      LET i == dlite_meta_get_property_index(e, c.name) + 1
      IN /\ ~c.res.ub
         /\ PropValue(e, x, i, CreatedNmemb(e, x, i)) = Expected(e, x, i, c.b)
         /\ \A j \in (1..e.nproperties) \ {i} :
              PropValue(e, x, j, CreatedNmemb(e, x, j))
                = PropValue(e, c.before, j, CreatedNmemb(e, x, j))
         /\ StoredDims(e, x) = StoredDims(e, c.before)
         /\ x.uuid = c.before.uuid /\ x.uri = c.before.uri

(***************************************************************************)
(* Collections (dlite-collection.c) over the triple store interface        *)
(*   add(s,p,o), remove(s,p,o) -> count, remove_by_id, init_state, find    *)
(* A NULL string argument or pointer is the empty set, a string s is {s}.  *)
(***************************************************************************)
MaxTriples == 6
MaxRelations == 1

Labels == {"a", "b"}

\* ids the store hands out; a new triplet gets the first one not in use
IdPool == <<"#1", "#2", "#3", "#4", "#5", "#6", "#7", "#8">>

\* the instances offered to dlite_collection_add: uuid and meta (uri or NULL)
CollInstances ==
  { [uuid |-> "u1", meta |-> {"e/1"}],
    [uuid |-> "u2", meta |-> {"e/2"}],
    [uuid |-> "u3", meta |-> {}] }

\* a triplet that was removed while an iteration was going on
Tombstone == [s |-> "", p |-> "", o |-> "", id |-> ""]

\* s, p and o of row t match the pattern; NULL matches everything
Matches(t, s, p, o) ==
  /\ t # Tombstone
  /\ s \subseteq {t.s} /\ p \subseteq {t.p} /\ o \subseteq {t.o}

FreeId(ts) ==
  IdPool[CHOOSE k \in 1..Len(IdPool) :
           /\ \A j \in 1..Len(ts) : ts[j].id # IdPool[k]
           /\ \A h \in 1..(k - 1) : \E j \in 1..Len(ts) : ts[j].id = IdPool[h]]

\* add(s,p,o); unique: the store keeps one copy of an identical triplet
triplestore_add(ts, s, p, o, unique) ==
  IF unique /\ \E j \in 1..Len(ts) : Matches(ts[j], {s}, {p}, {o})
  THEN ts
  ELSE Append(ts, [s |-> s, p |-> p, o |-> o, id |-> FreeId(ts)])

Unmatched(ts, s, p, o) == SelectSeq(ts, LAMBDA t : ~Matches(t, s, p, o))

\* remove(s,p,o) -> count
triplestore_remove(ts, s, p, o) ==
  [n |-> Len(ts) - Len(Unmatched(ts, s, p, o)), ts |-> Unmatched(ts, s, p, o)]

\* remove_by_id; with compact the gap is closed at once, otherwise the row
\* is left behind as a tombstone until the iteration is over
triplestore_remove_by_id(ts, id, compact) ==
  IF compact THEN SelectSeq(ts, LAMBDA t : t.id # id)
  ELSE [j \in 1..Len(ts) |-> IF ts[j].id = id THEN Tombstone ELSE ts[j]]

\* find(state, s,p,o): the first match after position state, if any
triplestore_find(ts, state, s, p, o) ==
  LET hits == {j \in (state + 1)..Len(ts) : Matches(ts[j], s, p, o)} IN
  IF hits = {} THEN [t |-> {}, state |-> Len(ts)]
  ELSE LET j == CHOOSE h \in hits : \A g \in hits : h <= g
       IN [t |-> {ts[j]}, state |-> j]

dlite_collection_add_relation(ts, s, p, o, unique) ==
  triplestore_add(ts, s, p, o, unique)

dlite_collection_remove_relations(ts, s, p, o) == triplestore_remove(ts, s, p, o)

dlite_collection_find(ts, state, s, p, o) == triplestore_find(ts, state, s, p, o)

\* returns [ret, ts]
dlite_collection_add_all(ts, label, x, unique) ==
  [ret |-> 0,
   ts |-> dlite_collection_add_relation(
            dlite_collection_add_relation(
              dlite_collection_add_relation(ts, label, "_is-a", "Instance",
                                            unique),
              label, "_has-uuid", x.uuid, unique),
            label, "_has-meta", CHOOSE u \in x.meta : TRUE, unique)]

dlite_collection_add(ts, label, x, unique) ==
  IF x.meta = {} THEN [ret |-> 1, ts |-> ts]
  ELSE dlite_collection_add_all(ts, label, x, unique)

\* the loop of dlite_collection_remove over (label, _has-dimmap, *)
RECURSIVE RemoveDimmapped(_, _, _, _)
RemoveDimmapped(ts, state, label, compact) ==
  LET f == dlite_collection_find(ts, state, {label}, {"_has-dimmap"}, {}) IN
  IF f.t = {} THEN ts
  ELSE RemoveDimmapped(
         triplestore_remove_by_id(ts, (CHOOSE t \in f.t : TRUE).o, compact),
         f.state, label, compact)

Purged(ts) == SelectSeq(ts, LAMBDA t : t # Tombstone)

\* a remove that takes out the _is-a marker only
dlite_collection_remove_unmarked(ts, label, compact) ==
  LET r1 == dlite_collection_remove_relations(ts, {label}, {"_is-a"},
                                              {"Instance"})
      t2 == Purged(RemoveDimmapped(r1.ts, 0, label, compact))
      t3 == dlite_collection_remove_relations(t2, {label},
                                              {"_has-uuid"}, {}).ts
      t4 == dlite_collection_remove_relations(t3, {label},
                                              {"_has-meta"}, {}).ts
      t5 == dlite_collection_remove_relations(t4, {label},
                                              {"_has-dimmap"}, {}).ts
  IN [ret |-> IF r1.n > 0 THEN 0 ELSE 1, ts |-> t5]

dlite_collection_remove_marker_only(ts, label, compact) ==
  LET r1 == dlite_collection_remove_relations(ts, {label}, {"_is-a"},
                                              {"Instance"}) IN
  [ret |-> IF r1.n > 0 THEN 0 ELSE 1, ts |-> r1.ts]

\* returns [ret, ts]
dlite_collection_remove(ts, label, compact) ==
  LET r1 == dlite_collection_remove_relations(ts, {label}, {"_is-a"},
                                              {"Instance"}) IN
  IF r1.n > 0
  THEN LET t2 == Purged(RemoveDimmapped(r1.ts, 0, label, compact))
           t3 == dlite_collection_remove_relations(t2, {label},
                                                   {"_has-uuid"}, {}).ts
           t4 == dlite_collection_remove_relations(t3, {label},
                                                   {"_has-meta"}, {}).ts
           t5 == dlite_collection_remove_relations(t4, {label},
                                                   {"_has-dimmap"}, {}).ts
       IN [ret |-> 0, ts |-> t5]
  ELSE [ret |-> 1, ts |-> r1.ts]

Subject(ts, label) ==
  {<<ts[j].s, ts[j].p, ts[j].o>> : j \in {h \in 1..Len(ts) : ts[h].s = label}}

Relations == UNION {{c.relations} : c \in coll_ret}

CollectionAdd(label, x, unique) ==
  /\ coll_ret # {}
  /\ Len(triplets) + 3 <= MaxTriples
  /\ LET r == dlite_collection_add(triplets, label, x, unique) IN
       /\ triplets' = r.ts
       /\ coll_ret' = {[op |-> "add", label |-> label, inst |-> {x},
                        ret |-> r.ret,
                        fresh |-> Subject(triplets, label) = {},
                        relations |-> TRUE \in Relations]}
  /\ UNCHANGED <<coreVars, dmVars, instVars, plugVars, copyVars, jsonVars>>

CollectionRemove(label, compact) ==
  /\ coll_ret # {}
  /\ LET r == dlite_collection_remove(triplets, label, compact) IN
       /\ triplets' = r.ts
       /\ coll_ret' = {[op |-> "remove", label |-> label,
                        inst |-> UNION {c.inst : c \in coll_ret},
                        ret |-> r.ret,
                        fresh |-> \E c \in coll_ret :
                                   /\ c.op = "add" /\ c.label = label
                                   /\ c.fresh /\ c.ret = 0,
                        relations |-> TRUE \in Relations]}
  /\ UNCHANGED <<coreVars, dmVars, instVars, plugVars, copyVars, jsonVars>>

\* a relation supplied by the user; o may name a triplet by its id
CollectionAddRelation(s, p, o, unique) ==
  /\ coll_ret # {}
  /\ Len(triplets) < MaxTriples
  /\ Len(SelectSeq(triplets, LAMBDA t : t.p \in {"_has-dimmap", "_knows"}))
       < MaxRelations
  /\ triplets' = dlite_collection_add_relation(triplets, s, p, o, unique)
  /\ coll_ret' = {[op |-> "add_relation", label |-> s, inst |-> {},
                   ret |-> 0, fresh |-> FALSE, relations |-> TRUE]}
  /\ UNCHANGED <<coreVars, dmVars, instVars, plugVars, copyVars, jsonVars>>

\* dlite_collection_create: an empty store
InitColl ==
  /\ IdleUuid /\ IdleUrl /\ IdleLayout /\ IdleRef /\ IdleLoad
  /\ IdleDm /\ IdleInst /\ IdlePlug /\ IdleCopy /\ IdleJson
  /\ triplets = <<>>
  /\ coll_ret = {[op |-> "create", label |-> "", inst |-> {}, ret |-> 0,
                  fresh |-> FALSE, relations |-> FALSE]}

NextColl ==
  \/ \E label \in Labels, x \in CollInstances, unique \in BOOLEAN :
       CollectionAdd(label, x, unique)
  \/ \E label \in Labels, compact \in BOOLEAN :
       CollectionRemove(label, compact)
  \/ \E s \in Labels, k \in 1..2, unique \in BOOLEAN :
       CollectionAddRelation(s, "_has-dimmap", IdPool[k], unique)
  \/ \E unique \in BOOLEAN : CollectionAddRelation("a", "_knows", "b", unique)

SpecColl == InitColl /\ [][NextColl]_vars

\* C17: in a collection holding no triple with subject L, after
\* dlite_collection_add(coll, L, inst) with inst.meta set the triples with
\* subject L are exactly (L,_is-a,Instance), (L,_has-uuid,inst.uuid) and
\* (L,_has-meta,inst.meta.uri); after a following
\* dlite_collection_remove(coll, L) none of the three remains and the call
\* returns 0.
C17_AddThenRemove ==
  \A c \in coll_ret :
    /\ c.op = "add" /\ c.fresh /\ (\A x \in c.inst : x.meta # {})
         => \A x \in c.inst :
              /\ c.ret = 0
              /\ Subject(triplets, c.label) =
                   {<<c.label, "_is-a", "Instance">>,
                    <<c.label, "_has-uuid", x.uuid>>}
                   \cup {<<c.label, "_has-meta", u>> : u \in x.meta}
    /\ c.op = "remove" /\ c.fresh
         => /\ c.ret = 0
            /\ \A x \in c.inst :
                 Subject(triplets, c.label) \cap
                   ({<<c.label, "_is-a", "Instance">>,
                     <<c.label, "_has-uuid", x.uuid>>}
                    \cup {<<c.label, "_has-meta", u>> : u \in x.meta}) = {}

C17_Witness ==
  \E c \in coll_ret :
    /\ c.op = "remove" /\ c.fresh /\ c.ret = 0 /\ c.label = "a"
    /\ Subject(triplets, "b") # {}

\* C18: in every state reached from an empty collection by
\* dlite_collection_add and dlite_collection_remove calls only, every label
\* L with a triple (L,_is-a,Instance) has exactly one triple (L,_has-uuid,x)
\* and exactly one triple (L,_has-meta,y).
C18_OneUuidOneMeta ==
  (TRUE \notin Relations) =>
    \A L \in Labels :
      (\E j \in 1..Len(triplets) :
           Matches(triplets[j], {L}, {"_is-a"}, {"Instance"}))
        => /\ Cardinality({j \in 1..Len(triplets) :
                  Matches(triplets[j], {L}, {"_has-uuid"}, {})}) = 1
           /\ Cardinality({j \in 1..Len(triplets) :
                  Matches(triplets[j], {L}, {"_has-meta"}, {})}) = 1

(***************************************************************************)
(* Storage plugin registry (dlite-storage-plugins.c)                       *)
(* paths is what plugin_path_get returns: {} is NULL (no search path is    *)
(* defined), {<<p1, ..., pn>>} a NULL-terminated array of n paths.         *)
(***************************************************************************)
MaxPaths == 2

PluginNames == {"json", "hdf5"}

PathNames == {"d1", "d2"}

\* plugin_get_api: the registered api, else a module found on the search
\* path, which is registered; returns [api, registry]
plugin_get_api(reg, pth, name, ondisk) ==
  IF name \in reg THEN [api |-> {name}, registry |-> reg]
  ELSE IF ondisk /\ \E sq \in pth : Len(sq) > 0
       THEN [api |-> {name}, registry |-> reg \cup {name}]
       ELSE [api |-> {}, registry |-> reg]

plugin_path_get(pth) == pth

dlite_storage_plugin_paths(info_ok, pth) ==
  IF ~info_ok THEN {} ELSE plugin_path_get(pth)

\* the message built in buf: the driver name, the paths listed and the hint
Diagnostic(name, sq) ==
  [name |-> name, listed |-> sq,
   hint |-> IF Len(sq) <= 1 THEN {"DLITE_STORAGE_PLUGIN_DIRS"} ELSE {}]

\* returns [ret, registry, diag, crashed]; with paths = NULL the loop at
\* line 87 reads through a null pointer
dlite_storage_plugin_get(info_ok, reg, pth, name, ondisk) ==
  LET r == plugin_get_api(reg, pth, name, ondisk)
      ps == dlite_storage_plugin_paths(info_ok, pth)
  IN
  IF ~info_ok
  THEN [ret |-> {}, registry |-> reg, diag |-> {}, crashed |-> FALSE]
  ELSE IF r.api # {}
  THEN [ret |-> r.api, registry |-> r.registry, diag |-> {},
        crashed |-> FALSE]
  ELSE IF ps = {}
  THEN [ret |-> {}, registry |-> r.registry, diag |-> {}, crashed |-> TRUE]
  ELSE [ret |-> {}, registry |-> r.registry,
        diag |-> {Diagnostic(name, sq) : sq \in ps}, crashed |-> FALSE]

dlite_storage_plugin_register_api(reg, name) == reg \cup {name}

\* the index path_insert and path_remove use: negative counts from the end,
\* out of range is clipped
ClipIndex(n, len) ==
  LET k == IF n < 0 THEN len + n ELSE n IN
  IF k < 0 THEN 0 ELSE IF k > len THEN len ELSE k

InsertAt(sq, k, path) ==
  SubSeq(sq, 1, k) \o <<path>> \o SubSeq(sq, k + 1, Len(sq))

dlite_storage_plugin_path_insert(pth, n, path) ==
  IF pth = {} THEN {<<path>>}
  ELSE {InsertAt(sq, ClipIndex(n, Len(sq)), path) : sq \in pth}

dlite_storage_plugin_path_append(pth, path) ==
  IF pth = {} THEN {<<path>>} ELSE {Append(sq, path) : sq \in pth}

RemoveAt(sq, k) == SubSeq(sq, 1, k) \o SubSeq(sq, k + 2, Len(sq))

\* the array stays, with one path less
dlite_storage_plugin_path_remove(pth, n) ==
  {IF Len(sq) = 0 THEN sq
   ELSE RemoveAt(sq, IF ClipIndex(n, Len(sq)) = Len(sq) THEN Len(sq) - 1
                     ELSE ClipIndex(n, Len(sq))) : sq \in pth}

PathCount == IF paths = {} THEN 0 ELSE Len(CHOOSE sq \in paths : TRUE)

Crashed == \E c \in plug_out : c.crashed

StoragePluginGet(info_ok, name, ondisk) ==
  /\ ~Crashed
  /\ LET r == dlite_storage_plugin_get(info_ok, registry, paths, name, ondisk)
     IN /\ registry' = r.registry
        /\ plug_out' = {[name |-> name, info |-> info_ok,
                         registered |-> name \in registry,
                         paths |-> paths, ret |-> r.ret, diag |-> r.diag,
                         crashed |-> r.crashed]}
  /\ UNCHANGED <<paths, coreVars, dmVars, instVars, collVars, copyVars, jsonVars>>

StoragePluginRegisterApi(name) ==
  /\ ~Crashed
  /\ registry' = dlite_storage_plugin_register_api(registry, name)
  /\ UNCHANGED <<paths, plug_out, coreVars, dmVars, instVars, collVars,
                 copyVars, jsonVars>>

StoragePluginPathInsert(n, path) ==
  /\ ~Crashed
  /\ PathCount < MaxPaths
  /\ paths' = dlite_storage_plugin_path_insert(paths, n, path)
  /\ UNCHANGED <<registry, plug_out, coreVars, dmVars, instVars, collVars,
                 copyVars, jsonVars>>

StoragePluginPathAppend(path) ==
  /\ ~Crashed
  /\ PathCount < MaxPaths
  /\ paths' = dlite_storage_plugin_path_append(paths, path)
  /\ UNCHANGED <<registry, plug_out, coreVars, dmVars, instVars, collVars,
                 copyVars, jsonVars>>

StoragePluginPathRemove(n) ==
  /\ ~Crashed
  /\ paths # {}
  /\ paths' = dlite_storage_plugin_path_remove(paths, n)
  /\ UNCHANGED <<registry, plug_out, coreVars, dmVars, instVars, collVars,
                 copyVars, jsonVars>>

\* an empty registry; the search path as get_storage_plugin_info leaves it
InitPlug ==
  /\ IdleUuid /\ IdleUrl /\ IdleLayout /\ IdleRef /\ IdleLoad
  /\ IdleDm /\ IdleInst /\ IdleColl /\ IdleCopy /\ IdleJson
  /\ registry = {}
  /\ paths \in {{}, {<<"d1">>}}
  /\ plug_out = {}

NextPlug ==
  \/ \E info_ok \in BOOLEAN, name \in PluginNames, ondisk \in BOOLEAN :
       StoragePluginGet(info_ok, name, ondisk)
  \/ \E name \in PluginNames : StoragePluginRegisterApi(name)
  \/ \E path \in PathNames : StoragePluginPathAppend(path)
  \/ \E n \in -1..1, path \in PathNames : StoragePluginPathInsert(n, path)
  \/ \E n \in -1..1 : StoragePluginPathRemove(n)

SpecPlug == InitPlug /\ [][NextPlug]_vars

\* C19: when no plugin named N is registered and the search path is empty
\* (no path defined), dlite_storage_plugin_get(N) returns NULL without
\* crashing and records a diagnostic that contains N and the hint naming
\* DLITE_STORAGE_PLUGIN_DIRS; when a plugin named N is registered it is
\* returned and no diagnostic is recorded.
C19_ResolutionFailure ==
  \A c \in plug_out :
    c.info =>
      /\ (~c.registered /\ (c.paths = {} \/ c.paths = {<<>>}))
           => /\ ~c.crashed
              /\ c.ret = {}
              /\ \E d \in c.diag :
                   d.name = c.name /\ "DLITE_STORAGE_PLUGIN_DIRS" \in d.hint
      /\ c.registered => c.ret = {c.name} /\ c.diag = {} /\ ~c.crashed

(***************************************************************************)
(* dlite_copy_to_flat, dlite_copy_to_nested (dlite-datamodel.c)            *)
(* Memory is a function from block ids to sequences of cells.  The pointer *)
(* array reached by the indices i0..ij of a nested array is block          *)
(* <<i0, ..., ij>>, the top array is block <<>>, and the element at        *)
(* (i0, ..., ik) is a block of one cell.  A cell holds a pointer to a     *)
(* block or one element of size bytes.                                     *)
(***************************************************************************)
MaxNdims == 3
MaxExtent == 2

FlatId == <<-1>>
WildId == <<-2>>
Blank == -1

PtrCell(b) == [k |-> "ptr", b |-> b, v |-> 0]
ValCell(v) == [k |-> "val", b |-> <<>>, v |-> v]

Shapes == UNION {[1..k -> 1..MaxExtent] : k \in 1..MaxNdims}

\* the extents the code uses: dims[i], or 1 when dims is NULL
Extent(dims, i) == IF dims = {} THEN 1 ELSE (CHOOSE d \in dims : TRUE)[i]

RECURSIVE Ntot(_, _)
Ntot(dims, ndims) ==
  IF ndims = 0 THEN 1 ELSE Ntot(dims, ndims - 1) * Extent(dims, ndims)

\* index tuples of length j within the extents
Indices(dims, j) ==
  {idx \in [1..j -> 0..(MaxExtent + 1)] :
     \A m \in 1..j : idx[m] < Extent(dims, m)}

\* the value the caller stored at element idx: different for every element
RECURSIVE Label(_, _)
Label(idx, j) ==
  IF j = 0 THEN 0 ELSE Label(idx, j - 1) * (MaxExtent + 2) + idx[j] + 1

\* a nested array of the given shape whose element idx holds elem[idx]
NestedArray(dims, ndims, elem) ==
  [b \in UNION {Indices(dims, j) : j \in 0..ndims} |->
     IF Len(b) = ndims THEN <<ValCell(elem[b])>>
     ELSE [i \in 1..Extent(dims, Len(b) + 1) |-> PtrCell(Append(b, i - 1))]]

FlatBuffer(ntot, val) == [i \in 1..ntot |-> ValCell(val[i])]

\* the pointer stored in cell o of block b: [b, ub]
ReadPtrCell(heap, loc) ==
  IF loc.b \notin DOMAIN heap \/ loc.o >= Len(heap[loc.b])
  THEN [b |-> WildId, ub |-> TRUE]
  ELSE IF heap[loc.b][loc.o + 1].k = "ptr"
       THEN [b |-> heap[loc.b][loc.o + 1].b, ub |-> FALSE]
       ELSE [b |-> WildId, ub |-> FALSE]

\* for (i=0, p=base; i<ndims-1; i++) p = p[ind[i]];
RECURSIVE Descend(_, _, _, _, _)
Descend(heap, loc, ind, i, ndims) ==
  IF i >= ndims - 1 THEN [p |-> loc, ub |-> FALSE]
  ELSE LET r == ReadPtrCell(heap, [b |-> loc.b, o |-> loc.o + ind[i + 1]])
       IN IF r.ub THEN [p |-> [b |-> WildId, o |-> 0], ub |-> TRUE]
          ELSE Descend(heap, [b |-> r.b, o |-> 0], ind, i + 1, ndims)

\* for (i=ndims-2; i>=0; i--) if (++ind[i] < (dims ? dims[i] : i)) break;
\*                              else ind[i] = 0;
RECURSIVE Carry(_, _, _)
Carry(ind, i, dims) ==
  IF i < 0 THEN ind
  ELSE IF ind[i + 1] + 1 < (IF dims = {} THEN i ELSE Extent(dims, i + 1))
       THEN [ind EXCEPT ![i + 1] = @ + 1]
       ELSE Carry([ind EXCEPT ![i + 1] = 0], i - 1, dims)

\* the while loop of both functions; to_flat tells the direction of the
\* memcpy, base is the block p is set to again after a row
RECURSIVE CopyLoop(_, _, _, _, _, _)
CopyLoop(st, to_flat, base, ndims, dims, ntot) ==
  IF st.ub \/ st.n >= ntot THEN st
  ELSE
    LET e == ReadPtrCell(st.heap, st.p)
        bad == e.ub \/ e.b \notin DOMAIN st.heap \/ st.q >= ntot
        h1 == IF bad THEN st.heap
              ELSE IF to_flat
              THEN [st.heap EXCEPT ![FlatId][st.q + 1] = st.heap[e.b][1]]
              ELSE [st.heap EXCEPT ![e.b][1] = st.heap[FlatId][st.q + 1]]
        last == st.ind[ndims] + 1
        wrap == last >= Extent(dims, ndims)
        ind1 == IF wrap THEN Carry([st.ind EXCEPT ![ndims] = 0], ndims - 2, dims)
                ELSE [st.ind EXCEPT ![ndims] = last]
        d == Descend(h1, [b |-> base, o |-> 0], ind1, 0, ndims)
    IN
    IF bad THEN [st EXCEPT !.ub = TRUE]
    ELSE CopyLoop([n |-> st.n + 1, ind |-> ind1, q |-> st.q + 1, heap |-> h1,
                   p |-> IF wrap THEN d.p
                         ELSE [b |-> st.p.b, o |-> st.p.o + 1],
                   ub |-> wrap /\ d.ub],
                  to_flat, base, ndims, dims, ntot)

\* both functions up to the loop: calloc of ind, the first descent
CopyRun(heap, to_flat, first, base, ndims, dims, alloc_ok, zero_null) ==
  IF ~alloc_ok \/ (ndims = 0 /\ zero_null)
  THEN [ret |-> 1, heap |-> heap, ub |-> FALSE]
  ELSE IF ndims = 0
  THEN [ret |-> 0, heap |-> heap, ub |-> TRUE]
  ELSE LET d == Descend(heap, [b |-> first, o |-> 0], [i \in 1..ndims |-> 0],
                        0, ndims)
           st == CopyLoop([n |-> 0, ind |-> [i \in 1..ndims |-> 0], q |-> 0,
                           heap |-> heap, p |-> d.p, ub |-> d.ub],
                          to_flat, base, ndims, dims, Ntot(dims, ndims))
       IN [ret |-> 0, heap |-> st.heap, ub |-> st.ub]

\* src is the nested array at block <<>>, dst the flat buffer
dlite_copy_to_flat(heap, ndims, dims, alloc_ok, zero_null) ==
  CopyRun(heap, TRUE, <<>>, <<>>, ndims, dims, alloc_ok, zero_null)

\* dst is the nested array at block <<>>, src the flat buffer: after a row
\* p is set to src, not dst (line 247)
dlite_copy_to_nested(heap, ndims, dims, alloc_ok, zero_null) ==
  CopyRun(heap, FALSE, <<>>, FlatId, ndims, dims, alloc_ok, zero_null)

\* the calls: a shape (or dims = NULL), the elements' values, the allocator
CopyCalls ==
  [ndims : 0..MaxNdims, dims : {{}} \cup {{sh} : sh \in Shapes},
   salt : 0..1, alloc_ok : BOOLEAN, zero_null : BOOLEAN]

CopyElems(c) ==
  [idx \in Indices(c.dims, c.ndims) |-> Label(idx, c.ndims) * 2 + c.salt]

CopyToFlat ==
  /\ copy_out = {}
  /\ \E c \in copy_in :
       LET ntot == Ntot(c.dims, c.ndims)
           heap == (FlatId :> FlatBuffer(ntot, [i \in 1..ntot |-> Blank]))
                   @@ NestedArray(c.dims, c.ndims, CopyElems(c))
       IN copy_out' = {[op |-> "flat", before |-> heap,
                        flat |-> dlite_copy_to_flat(heap, c.ndims, c.dims,
                                                    c.alloc_ok, c.zero_null),
                        nested |-> {}]}
  /\ UNCHANGED <<copy_in, coreVars, dmVars, instVars, collVars, plugVars,
                 jsonVars>>

\* the flat buffer just written is copied into a new nested array
CopyToNested ==
  /\ \E c \in copy_in, o \in copy_out :
       /\ o.op = "flat" /\ o.flat.ret = 0 /\ ~o.flat.ub
       /\ LET heap == (FlatId :> o.flat.heap[FlatId])
                      @@ NestedArray(c.dims, c.ndims,
                           [idx \in Indices(c.dims, c.ndims) |-> Blank])
          IN copy_out' = {[op |-> "nested", before |-> heap, flat |-> o.flat,
                           nested |-> {dlite_copy_to_nested(heap, c.ndims,
                                         c.dims, c.alloc_ok, c.zero_null)}]}
  /\ UNCHANGED <<copy_in, coreVars, dmVars, instVars, collVars, plugVars,
                 jsonVars>>

InitCopy ==
  /\ IdleUuid /\ IdleUrl /\ IdleLayout /\ IdleRef /\ IdleLoad
  /\ IdleDm /\ IdleInst /\ IdleColl /\ IdlePlug /\ IdleJson
  /\ \E c \in CopyCalls :
       /\ \A sh \in c.dims : Len(sh) = c.ndims
       /\ copy_in = {c}
  /\ copy_out = {}

NextCopy == CopyToFlat \/ CopyToNested

SpecCopy == InitCopy /\ [][NextCopy]_vars

\* which cells of the nested array in heap hold pointers
Pointers(heap) == [b \in DOMAIN heap \ {FlatId} |->
                     [i \in 1..Len(heap[b]) |-> heap[b][i].k = "ptr"]]

\* sum of i_j times the product of the later extents
RECURSIVE FlatPosition(_, _, _)
FlatPosition(idx, sh, j) ==
  IF j = 0 THEN 0 ELSE FlatPosition(idx, sh, j - 1) * sh[j] + idx[j]

\* C20: for ndims >= 1 and a shape of positive extents, with the allocation
\* of ind succeeding, dlite_copy_to_flat writes element (i0,...,ik) of the
\* nested array at the flat position sum of i_j times the product of the
\* later extents, and dlite_copy_to_nested applied to that buffer and a
\* nested array of the same shape reproduces every element; both return 0
\* and write only into dst.
C20_FlatNestedInverse ==
  \A c \in copy_in, o \in copy_out :
    (c.ndims >= 1 /\ c.dims # {} /\ c.alloc_ok) =>
      \A sh \in c.dims :
        /\ o.flat.ret = 0 /\ ~o.flat.ub
        /\ \A idx \in Indices(c.dims, c.ndims) :
             o.flat.heap[FlatId][FlatPosition(idx, sh, c.ndims) + 1]
               = ValCell(CopyElems(c)[idx])
        /\ \A b \in DOMAIN o.flat.heap \ {FlatId} :
             o.op = "flat" => o.flat.heap[b] = o.before[b]
        /\ \A r \in o.nested :
             /\ r.ret = 0 /\ ~r.ub
             /\ \A idx \in Indices(c.dims, c.ndims) :
                  r.heap[idx] = <<ValCell(CopyElems(c)[idx])>>
             /\ r.heap[FlatId] = o.before[FlatId]
             /\ Pointers(r.heap) = Pointers(o.before)
             /\ \A b \in DOMAIN r.heap :
                  Len(b) < c.ndims /\ b # FlatId => r.heap[b] = o.before[b]

(***************************************************************************)
(* Entity schemas in the json plugin (json-utils.c)                        *)
(* A json array is a sequence, a missing member (NULL) the empty set, a    *)
(* member that is there a set of one value.                                *)
(***************************************************************************)
MaxJsonDims == 2
MaxJsonProps == 2

JsonDimNames == {"n", "m"}

\* json arrays of dimension names: of an entity (its objects' "name") or
\* of a property (its "dims")
JsonDimLists == UNION {[1..k -> JsonDimNames] : k \in 0..MaxJsonDims}

JsonProperties ==
  [name : {"p", " "}, type : {"int", "nope"},
   dims : {{}} \cup {{d} : d \in JsonDimLists}]

JsonEntities ==
  [dimensions : {{}} \cup {{d} : d \in JsonDimLists},
   properties : UNION {[1..k -> JsonProperties] : k \in 0..MaxJsonProps}]

\* json_array_size and json_array_get; json_array_size(NULL) is 0
json_array(a) == IF a = {} THEN <<>> ELSE CHOOSE d \in a : TRUE

str_equal(a, b) == a = b

str_is_whitespace(a) == a \in {"", " "}

dlite_is_type(a) == a = "int"

\* k counts the pairs (i, j) with prop_dims[i] equal to the name of
\* entity_dims[j]; the result is (int)(k == sp)
check_dimensions(prop_name, prop_dims, entity_dims) ==
  LET pd == json_array(prop_dims)
      ed == json_array(entity_dims)
      k == Cardinality({ij \in (1..Len(pd)) \X (1..Len(ed)) :
                          str_equal(pd[ij[1]], ed[ij[2]])})
  IN IF k = Len(pd) THEN 1 ELSE 0

\* the property is counted (1) or is an error (0)
PropertyCounts(item, dims) ==
  IF str_is_whitespace(item.name) THEN 0
  ELSE IF ~dlite_is_type(item.type) THEN 0
  ELSE IF check_dimensions(item.name, item.dims, dims) = 0 THEN 0
  ELSE 1

dlite_json_entity_prop_count(obj) ==
  LET count == Cardinality({i \in 1..Len(obj.properties) :
                              PropertyCounts(obj.properties[i],
                                             obj.dimensions) = 1})
      nerr == Len(obj.properties) - count
  IN IF nerr > 0 THEN -1 ELSE count

JsonEntityPropCount ==
  /\ json_out = {}
  /\ \E obj \in json_in :
       json_out' = {[ret |-> dlite_json_entity_prop_count(obj)]}
  /\ UNCHANGED <<json_in, coreVars, dmVars, instVars, collVars, plugVars,
                 copyVars>>

InitJson ==
  /\ IdleUuid /\ IdleUrl /\ IdleLayout /\ IdleRef /\ IdleLoad
  /\ IdleDm /\ IdleInst /\ IdleColl /\ IdlePlug /\ IdleCopy
  /\ \E obj \in JsonEntities : json_in = {obj}
  /\ json_out = {}

NextJson == JsonEntityPropCount

SpecJson == InitJson /\ [][NextJson]_vars

\* every name of the property's dims is the name of a declared dimension
AllDeclared(item, dims) ==
  \A i \in 1..Len(json_array(item.dims)) :
    \E j \in 1..Len(json_array(dims)) :
      json_array(item.dims)[i] = json_array(dims)[j]

\* C21: check_dimensions returns non-zero if and only if every name in the
\* property's dims list is the name of a declared entity dimension (lists
\* with repeated names included), and dlite_json_entity_prop_count returns
\* -1 whenever a property references a dimension name that is not declared.
C21_DimsMustBeDeclared ==
  \A obj \in json_in, o \in json_out :
    /\ \A i \in 1..Len(obj.properties) :
         (check_dimensions(obj.properties[i].name, obj.properties[i].dims,
                           obj.dimensions) # 0)
           <=> AllDeclared(obj.properties[i], obj.dimensions)
    /\ (\E i \in 1..Len(obj.properties) :
           ~AllDeclared(obj.properties[i], obj.dimensions))
         => o.ret = -1

(***************************************************************************)
(* Instances: save and load, the driver calls                              *)
(***************************************************************************)
\* the driver calls of a complete dlite_instance_save of an instance of e
ExpectedSave(e) ==
  <<<<"dataModel", "">>, <<"setMetadata", e.uri>>>>
  \o [k \in 1..e.ndimensions |-> <<"setDimensionSize", DimNames[k]>>]
  \o [i \in 1..e.nproperties |-> <<"setProperty", PropNames[i]>>]

\* the calls before the datamodel is released
Submitted(calls) == SelectSeq(calls, LAMBDA c : c[1] # "dataModelFree")

\* C22: dlite_instance_save submits one datamodel creation, the meta uri
\* write, one dimension-size write per dimension and one property write per
\* property, in declaration order; it stops at the first driver call that
\* reports an error, returns non-zero then, and returns 0 only if every
\* write succeeded.
C22_SaveOrder ==
  \A e \in entity, c \in obs :
    c.op = "save" =>
      LET all == ExpectedSave(e)
          made == Submitted(c.res.calls)
      IN /\ Len(made) <= Len(all) /\ made = SubSeq(all, 1, Len(made))
         /\ c.fail_at \in 1..Len(all) =>
              /\ Len(made) = c.fail_at
              /\ c.res.ret # 0 /\ ~c.res.ub
         /\ c.res.ret = 0 => made = all /\ c.fail_at \notin 1..Len(all)

(***************************************************************************)
(* dlite-datamodel.c: dlite_datamodel                                      *)
(***************************************************************************)
\* a DLiteStorage: whether it is writable and whether its api has
\* setDataName
DmStorages == [name : DriverNames, writable : BOOLEAN, setDataName : BOOLEAN]

\* s->api->dataModel(s, uuid): a new handle, or NULL
dataModel(s, uuid, driver_ok) ==
  IF driver_ok THEN {[api |-> {}, s |-> {}, uuid |-> <<>>]} ELSE {}

\* returns [ret, calls, err]: the handle or NULL, the driver calls in order
dlite_datamodel_names_all(s, id, env, driver_ok) ==
  LET u == getuuid(env.old, id, 0, env.status, env.up)
      d == dataModel(s, u.buff, driver_ok)
  IN IF u.version < 0
     THEN [ret |-> {}, calls |-> <<>>,
           err |-> {[what |-> "failed generating UUID", driver |-> ""]}]
     ELSE IF d = {}
     THEN [ret |-> {}, calls |-> <<<<"dataModel", u.buff>>>>,
           err |-> {[what |-> "cannot create datamodel", driver |-> s.name]}]
     ELSE [ret |-> {[api |-> {s.name}, s |-> {s}, uuid |-> u.buff]},
           calls |-> <<<<"dataModel", u.buff>>>>
                     \o IF s.writable /\ s.setDataName
                        THEN <<<<"setDataName", id>>>> ELSE <<>>,
           err |-> {}]

dlite_datamodel(s, id, env, driver_ok) ==
  LET u == getuuid(env.old, id, 0, env.status, env.up)
      d == dataModel(s, u.buff, driver_ok)
  IN IF u.version < 0
     THEN [ret |-> {}, calls |-> <<>>,
           err |-> {[what |-> "failed generating UUID", driver |-> ""]}]
     ELSE IF d = {}
     THEN [ret |-> {}, calls |-> <<<<"dataModel", u.buff>>>>,
           err |-> {[what |-> "cannot create datamodel", driver |-> s.name]}]
     ELSE [ret |-> {[api |-> {s.name}, s |-> {s}, uuid |-> u.buff]},
           calls |-> <<<<"dataModel", u.buff>>>>
                     \o IF u.version = 5 /\ s.writable /\ s.setDataName
                        THEN <<<<"setDataName", id>>>> ELSE <<>>,
           err |-> {}]

Datamodel ==
  \E c \in dm_in :
    /\ c.op = "dataModel"
    /\ dm_out' = {[op |-> c.op, s |-> c.s, id |-> c.id,
                   driver_ok |-> c.driver_ok,
                   res |-> dlite_datamodel(c.s, c.id, c.env, c.driver_ok)]}
    /\ dm_in' = {}
    /\ UNCHANGED <<coreVars, instVars, collVars, plugVars, copyVars, jsonVars>>

InitDatamodel ==
  /\ IdleUuid /\ IdleUrl /\ IdleLayout /\ IdleRef /\ IdleLoad
  /\ IdleInst /\ IdleColl /\ IdlePlug /\ IdleCopy /\ IdleJson
  /\ \E s \in DmStorages, id \in Ids, driver_ok \in BOOLEAN :
       \E env \in Envs(id) :
         dm_in = {[op |-> "dataModel", s |-> s, id |-> id, env |-> env,
                   driver_ok |-> driver_ok]}
  /\ dm_out = {}

NextDatamodel == Datamodel

SpecDatamodel == InitDatamodel /\ [][NextDatamodel]_vars

SetsDataName(c) == \E k \in 1..Len(c.res.calls) : c.res.calls[k][1] = "setDataName"

\* C23: when dlite_datamodel(s, id) succeeds, the driver's setDataName(d, id)
\* is called if and only if id is a readable name (not NULL, not empty, not
\* a uuid), the storage is writable and the driver provides setDataName;
\* the handle returned records s->api, s and the uuid of id.  When it
\* fails, setDataName is not called.
C23_DataNameOnlyForNames ==
  \A c \in dm_out :
    c.op = "dataModel" =>
      /\ c.res.ret = {} => ~SetsDataName(c)
      /\ \A d \in c.res.ret :
           /\ SetsDataName(c) <=>
                (IdClass(c.id) = "name" /\ c.s.writable /\ c.s.setDataName)
           /\ SetsDataName(c) =>
                c.res.calls = <<<<"dataModel", d.uuid>>, <<"setDataName", c.id>>>>
           /\ d.api = {c.s.name} /\ d.s = {c.s}
           /\ ValidUuid(SubSeq(d.uuid, 1, UUID_LEN))
           /\ d.uuid[UUID_LEN + 1] = NUL
           /\ IdClass(c.id) = "uuid"
                => SubSeq(d.uuid, 1, UUID_LEN) = lower(c.id.s)

C23_Witness ==
  \E c \in dm_out :
    /\ c.op = "dataModel" /\ c.res.ret # {} /\ SetsDataName(c)
    /\ IdClass(c.id) = "name"


(***************************************************************************)
(* dlite-entity.c: dlite_instance_free over the bytes of the instance.     *)
(* What is released is recorded in order: the uri copy, heap objects, the  *)
(* instance block.                                                         *)
(***************************************************************************)
UriBlock == [what |-> "uri", h |-> 0]
InstBlock == [what |-> "inst", h |-> 0]
HeapBlock(h) == [what |-> "heap", h |-> h]

\* free(h) in st = [x, frees, ub]: nothing for NULL; ub for a pointer that
\* is no live heap object
heap_free(st, h) ==
  IF st.ub \/ h = 0 THEN st
  ELSE IF h = Wild \/ h \notin DOMAIN st.x.heap THEN [st EXCEPT !.ub = TRUE]
  ELSE IF ~st.x.heap[h].live THEN [st EXCEPT !.ub = TRUE]
  ELSE [st EXCEPT !.x.heap[h].live = FALSE,
                  !.frees = Append(@, HeapBlock(h))]

\* line 126: for (n=0; n<nmemb; n++) free((ptr)[n]), from n on
RECURSIVE FreeStrings(_, _, _, _)
FreeStrings(st, ptr, n, nmemb) ==
  IF n >= nmemb \/ st.ub THEN st
  ELSE FreeStrings(
         heap_free(st, FetchPtr(st.x, Loc(ptr.h, ptr.off + n * SizeofPtr))),
         ptr, n + 1, nmemb)

\* lines 116-134: the properties from i (1-based) on
RECURSIVE FreeProperties(_, _, _)
FreeProperties(st, i, e) ==
  IF i > e.nproperties \/ st.ub THEN st
  ELSE LET p == e.properties[i]
           array == p.ndims > 0 /\ p.dims
           slot == Loc(0, e.propoffsets[i])
           h == FetchPtr(st.x, slot)
           nmemb == Nmemb(p, StoredDims(e, st.x))
       IN IF p.type = "dliteStringPtr"
          THEN IF ~array
               THEN FreeProperties(FreeStrings(st, slot, 0, nmemb), i + 1, e)
               ELSE IF h = Wild \/ (h = 0 /\ nmemb > 0)
               THEN [st EXCEPT !.ub = TRUE]
               ELSE IF h = 0 THEN FreeProperties(st, i + 1, e)
               ELSE IF h \notin DOMAIN st.x.heap
               THEN [st EXCEPT !.ub = TRUE]
               ELSE FreeProperties(
                      heap_free(FreeStrings(st, Loc(h, 0), 0, nmemb), h),
                      i + 1, e)
          ELSE IF array THEN FreeProperties(heap_free(st, h), i + 1, e)
          ELSE FreeProperties(st, i + 1, e)

\* dlite_instance_free(inst): the instance after the call, what was freed
\* in order, and ub: a pointer that is no live heap object was freed, or a
\* pointer was read outside the object that holds it
dlite_instance_free(e, x) ==
  LET s0 == [x |-> x, ub |-> FALSE,
             frees |-> IF x.uri # NULL THEN <<UriBlock>> ELSE <<>>]
      s1 == FreeProperties(s0, 1, e)
  IN IF s1.ub THEN s1 ELSE [s1 EXCEPT !.frees = Append(@, InstBlock)]

\* dlite_instance_free(inst) by the caller that holds the instance
InstanceRelease ==
  /\ ~Reported /\ storage = {}
  /\ \E e \in entity, x \in inst :
       LET r == dlite_instance_free(e, x)
       IN /\ inst' = {}
          /\ obs' = {[op |-> "free", before |-> x,
                      res |-> [ub |-> r.ub, frees |-> r.frees]]}
  /\ UNCHANGED <<entity, storage>>
  /\ UNCHANGED <<coreVars, dmVars, collVars, plugVars, copyVars, jsonVars>>

\* a set_property call that succeeds
SetPropertyOk(name, b) ==
  /\ SetProperty(name, b)
  /\ \A c \in obs' : c.res.ret = 0 /\ ~c.res.ub

\* creating an instance, setting properties, freeing the instance
NextRelease ==
  \/ \E e \in entity, id \in InstIds, zero_null \in BOOLEAN :
       \E dims \in [0..(e.ndimensions - 1) -> 0..MaxDimSize] :
         InstanceCreateDims(dims, id, zero_null)
  \/ \E k \in 1..MaxProps, b \in SourceValues : SetPropertyOk(PropNames[k], b)
  \/ CallerScribble
  \/ InstanceRelease

SpecRelease == InitInst /\ [][NextRelease]_vars

\* the heap objects instance x owns
Owned(x) == {h \in DOMAIN x.heap : x.heap[h].owner = "inst" /\ x.heap[h].live}

\* how often block b occurs in the sequence frees
Times(frees, b) == Cardinality({k \in DOMAIN frees : frees[k] = b})

\* the heap objects the pointers held in heap object h point to
PointedFrom(x, h) ==
  {q \in DOMAIN x.heap :
     \E n \in 0..(Len(x.heap[h].bytes) \div SizeofPtr - 1) :
       ReadPtr(x.heap[h].bytes, n * SizeofPtr + 1) = q}

\* the arrays of the string properties of x
StringArrays(e, x) ==
  {h \in DOMAIN x.heap :
     \E i \in 1..e.nproperties :
       /\ e.properties[i].type = "dliteStringPtr"
       /\ e.properties[i].ndims > 0 /\ e.properties[i].dims
       /\ ReadPtr(x.mem, e.propoffsets[i]) = h}

\* the place of block b in frees
Place(frees, b) == CHOOSE k \in DOMAIN frees : frees[k] = b

\* C24: after dlite_instance_create, any successful set_property calls and
\* dlite_instance_free, every heap array of a property, every string of a
\* string property, the uri copy and the instance block have been freed
\* exactly once, each string before the array that holds it, and nothing
\* the instance does not own has been freed.
C24_FreesOwnedOnce ==
  \A e \in entity, c \in obs :
    c.op = "free" =>
      LET x == c.before
          frees == c.res.frees
      IN /\ ~c.res.ub
         /\ \A h \in Owned(x) : Times(frees, HeapBlock(h)) = 1
         /\ Times(frees, UriBlock) = (IF x.uri # NULL THEN 1 ELSE 0)
         /\ Times(frees, InstBlock) = 1
         /\ \A k \in DOMAIN frees :
              frees[k].what = "heap" => frees[k].h \in Owned(x)
         /\ \A a \in StringArrays(e, x) : \A q \in PointedFrom(x, a) :
              Place(frees, HeapBlock(q)) < Place(frees, HeapBlock(a))


(***************************************************************************)
(* Collections: removing a label that is not in the collection             *)
(***************************************************************************)
\* C25: dlite_collection_remove(coll, L) on a collection without the triple
\* (L,_is-a,Instance) returns non-zero and leaves the triples of the
\* collection as they were, those with subject L included.
C25_RemoveAbsentLabel ==
  [][\A c \in coll_ret' :
       (/\ c.op = "remove"
        /\ <<c.label, "_is-a", "Instance">> \notin Subject(triplets, c.label))
         => c.ret # 0 /\ triplets' = triplets]_vars

C25_Witness ==
  \E c \in coll_ret :
    /\ c.op = "remove" /\ c.ret = 1
    /\ \E t \in Subject(triplets, c.label) : t[2] = "_has-dimmap"
    /\ \E t \in Subject(triplets, "b") : t[2] = "_has-uuid"


(***************************************************************************)
(* Reference counting: a dlite_instance_create that fails                  *)
(***************************************************************************)
\* a step that adds no instance, frees none and changes no caller's
\* references is a dlite_instance_create that returned NULL
FailedCreate == instances' = instances /\ held' = held

\* C26: whenever dlite_instance_create returns NULL the refcount of the
\* entity is what it was before the call, the entity is not freed, and the
\* call has released what it allocated (it returns to its caller).
C26_FailedCreateLeavesEntity ==
  [][FailedCreate =>
       /\ entities' = entities
       /\ schema_entity' = schema_entity
       /\ ~crashed']_vars


(***************************************************************************)
(* Layout: the members of an instance do not overlap                       *)
(***************************************************************************)
\* the bytes of the slot of property i (1-based) of layout e
Slot(e, i) ==
  e.propoffsets[i]..(e.propoffsets[i] + Footprint(e.properties[i]) - 1)

\* the bytes of the dimension sizes of layout e
DimensionArray(e) ==
  e.dimoffset..(e.dimoffset + e.ndimensions * SizeofSizeT - 1)

\* the property slots of e are pairwise disjoint
SlotsDisjoint(e) ==
  \A i, j \in 1..Len(e.properties) : i # j => Slot(e, i) \cap Slot(e, j) = {}

\* C27: in every layout with ndimensions >= 1 the dimension sizes occupy
\* [dimoffset, dimoffset + ndimensions*sizeof(size_t)), every property slot
\* lies at or after the end of that array and is disjoint from every other
\* property slot.
C27_MembersDisjoint ==
  \A e \in meta :
    e.ndimensions >= 1 =>
      /\ \A i \in 1..Len(e.properties) :
           /\ Slot(e, i) \cap DimensionArray(e) = {}
           /\ e.propoffsets[i] >= e.dimoffset + e.ndimensions * SizeofSizeT
      /\ SlotsDisjoint(e)


(***************************************************************************)
(* dlite_instance_load: the failing paths                                  *)
(***************************************************************************)
\* the driver call of load c that reported an error, if one did
FailedCall(c) ==
  IF c.fail_at \in 1..Len(c.res.calls) THEN {c.res.calls[c.fail_at][1]}
  ELSE {}

\* load c ran into a failure: the driver reported an error in one of its
\* calls, or the stored metadata uri is missing or not the entity's
Failing(c) ==
  \/ FailedCall(c) \cap {"dataModel", "getMetadata", "getDimensionSize",
                         "getProperty"} # {}
  \/ c.stored.metadata # {c.uri}

\* C28: on every failing path dlite_instance_load returns NULL and frees
\* only what this call allocated, never an uninitialised pointer.
C28_LoadFailureClean ==
  \A c \in obs :
    c.op = "load" =>
      /\ Failing(c) => c.res.ret = {}
      /\ c.res.ret = {} => ~c.res.ub


(***************************************************************************)
(* dlite_instance_load and dlite_instance_save: the datamodel handle       *)
(***************************************************************************)
\* the places of the dlite_datamodel_free calls among the driver calls
Releases(calls) == {k \in DOMAIN calls : calls[k][1] = "dataModelFree"}

\* operation c obtained a datamodel: its dataModel call did not fail
Obtained(c) == c.fail_at # 1 /\ (c.op = "load" => InstUuid(c.id).version >= 0)

\* the undefined behaviour of a load lies in lines 193-195, before the
\* datamodel is released in line 196; that of a save in line 243, after the
\* release in line 242
ReleaseReached(c) == c.op = "load" => ~c.res.ub

\* C29: in dlite_instance_load and dlite_instance_save a datamodel that was
\* obtained is released by dlite_datamodel_free exactly once on every path,
\* no driver call follows the release, and without a datamodel
\* dlite_datamodel_free is not called.
C29_DatamodelScoped ==
  \A c \in obs :
    c.op \in {"load", "save"} =>
      LET calls == c.res.calls
      IN /\ calls[1][1] = "dataModel"
         /\ Obtained(c) =>
              /\ Releases(calls) = {Len(calls)}
              /\ ReleaseReached(c)
         /\ ~Obtained(c) => Releases(calls) = {}


\* C30: when dlite_datamodel_get_dimension_size returns -1 for a dimension
\* of the entity, dlite_instance_load returns NULL and creates no instance.
C30_DimensionErrorFailsLoad ==
  \A c \in obs :
    (c.op = "load" /\ FailedCall(c) = {"getDimensionSize"}) =>
      c.res.ret = {} /\ c.res.created = 0

====
